---- MODULE Spec2Model ----
(***************************************************************************)
(* A model of the TLD reconciliation pipeline of rdap-cctld-ts.            *)
(*                                                                         *)
(* Labels are sequences of Unicode code points.  All code points used in   *)
(* the label pools of the builder and of the comparators lie in the Basic  *)
(* Multilingual Plane, so a UTF-16 code unit and a code point coincide and *)
(* String.prototype.sort order is the lexicographic order on these         *)
(* sequences.  The labels given to is_cctld go beyond that plane, and      *)
(* Utf16Length counts their code units.                                    *)
(***************************************************************************)
EXTENDS Integers, Sequences, FiniteSets, TLC

(***************************************************************************)
(* Bounds of the model.                                                    *)
(***************************************************************************)
MaxRows == 2
MaxRecords == 2
MaxManual == 2

(***************************************************************************)
(* Generic sequence helpers.                                               *)
(***************************************************************************)
Range(s) == {s[i] : i \in 1..Len(s)}

SeqsUpTo(S, n) == UNION {[1..k -> S] : k \in 0..n}

\* Lexicographic order on sequences of integers: s before t.  The first
\* place where the two differ decides; without one the shorter is first.
LexLess(s, t) ==
  LET common == IF Len(s) < Len(t) THEN Len(s) ELSE Len(t)
      differ == {i \in 1..common : s[i] /= t[i]}
  IN IF differ = {} THEN Len(s) < Len(t)
     ELSE LET k == CHOOSE i \in differ : \A j \in differ : i =< j
          IN s[k] < t[k]

(***************************************************************************)
(* Code points and labels.                                                 *)
(***************************************************************************)
\* "xn--"
AcePrefix == <<120, 110, 45, 45>>

\* String.prototype.startsWith("xn--")
StartsWithXn(tld) == Len(tld) >= 4 /\ SubSeq(tld, 1, 4) = AcePrefix

\* /[^\x00-\x7F]/.test(tld)
HasNonAscii(tld) == \E i \in 1..Len(tld) : tld[i] > 127

\* String.prototype.toLowerCase on one code point: ASCII A-Z and the basic
\* Cyrillic capitals (U+0410..U+042F) map 32 up, U+049A maps to U+049B; every
\* other code point of the pools is caseless or already lowercase.
LowerCp(c) ==
  IF c >= 65 /\ c =< 90 THEN c + 32
  ELSE IF c >= 1040 /\ c =< 1071 THEN c + 32
  ELSE IF c = 1178 THEN 1179
  ELSE c

toLowerCase(s) == [i \in 1..Len(s) |-> LowerCp(s[i])]

\* tld.replace(/^\./, "")
StripLeadingDot(s) == IF s /= <<>> /\ Head(s) = 46 THEN Tail(s) ELSE s

\* Default Array.prototype.sort comparison of two strings (code-unit order).
CodeUnitLess(a, b) == LexLess(a, b)

\* Array.prototype.sort() of an array of labels, by insertion.
RECURSIVE InsertLabel(_, _)
InsertLabel(s, x) ==
  IF s = <<>> THEN <<x>>
  ELSE IF CodeUnitLess(x, Head(s)) THEN <<x>> \o s
  ELSE <<Head(s)>> \o InsertLabel(Tail(s), x)

RECURSIVE SortLabels(_)
SortLabels(s) ==
  IF s = <<>> THEN <<>>
  ELSE InsertLabel(SortLabels(SubSeq(s, 1, Len(s) - 1)), s[Len(s)])

\* Primary collation weight of a code point under the root collation used by
\* String.prototype.localeCompare.  Within the alphabet of the pools the
\* collation order follows the code point order (hyphen < digits < Latin
\* letters < Cyrillic letters) with one exception: U+049B (ka with
\* descender) sorts directly after U+043A (ka), not after U+044F.
CollationWeight(c) == IF c = 1179 THEN 2 * 1082 + 1 ELSE 2 * c

CollationKey(s) == [i \in 1..Len(s) |-> CollationWeight(s[i])]

\* a.localeCompare(b) < 0
LocaleLess(a, b) == LexLess(CollationKey(a), CollationKey(b))

(***************************************************************************)
(* The IDN codec (ts-punycode): Punycode of RFC 3492.                      *)
(***************************************************************************)
\* Digit value -> code point of the digit: 0..25 -> a..z, 26..35 -> 0..9.
DigitToBasic(d) == IF d < 26 THEN d + 97 ELSE d + 22

\* Code point -> digit value; 36 (the base) when it is no digit.
BasicToDigit(c) ==
  IF c >= 48 /\ c < 58 THEN 26 + (c - 48)
  ELSE IF c >= 65 /\ c < 91 THEN c - 65
  ELSE IF c >= 97 /\ c < 123 THEN c - 97
  ELSE 36

RECURSIVE AdaptLoop(_, _)
AdaptLoop(delta, k) ==
  IF delta > 455 THEN AdaptLoop(delta \div 35, k + 36)
  ELSE k + ((36 * delta) \div (delta + 38))

\* Bias adaptation (RFC 3492 section 6.1).
Adapt(delta, numPoints, firstTime) ==
  LET d1 == IF firstTime THEN delta \div 700 ELSE delta \div 2
      d2 == d1 + (d1 \div numPoints)
  IN AdaptLoop(d2, 0)

\* Threshold of digit position k under the current bias.
Threshold(k, bias) ==
  IF k =< bias THEN 1 ELSE IF k >= bias + 26 THEN 26 ELSE k - bias

\* The variable-length integer q, as digits appended to out.
RECURSIVE EncodeVarInt(_, _, _, _)
EncodeVarInt(q, k, bias, out) ==
  LET t == Threshold(k, bias)
  IN IF q < t THEN Append(out, DigitToBasic(q))
     ELSE EncodeVarInt((q - t) \div (36 - t), k + 36, bias,
                       Append(out, DigitToBasic(t + ((q - t) % (36 - t)))))

\* One pass over the input for the current code point n.
RECURSIVE EncodePass(_, _, _, _)
EncodePass(input, i, n, st) ==
  IF i > Len(input) THEN st
  ELSE LET c == input[i]
           d == IF c < n THEN st.delta + 1 ELSE st.delta
       IN IF c = n
          THEN EncodePass(input, i + 1, n,
                 [delta |-> 0,
                  bias |-> Adapt(d, st.h + 1, st.h = st.b),
                  h |-> st.h + 1, b |-> st.b,
                  out |-> EncodeVarInt(d, 36, st.bias, st.out)])
          ELSE EncodePass(input, i + 1, n, [st EXCEPT !.delta = d])

RECURSIVE EncodeMain(_, _, _)
EncodeMain(input, n, st) ==
  IF st.h >= Len(input) THEN st.out
  ELSE LET m == CHOOSE x \in {input[i] : i \in 1..Len(input)} :
                  x >= n /\ \A i \in 1..Len(input) : input[i] >= n => x =< input[i]
           st1 == [st EXCEPT !.delta = st.delta + (m - n) * (st.h + 1)]
           st2 == EncodePass(input, 1, m, st1)
       IN EncodeMain(input, m + 1, [st2 EXCEPT !.delta = st2.delta + 1])

\* punycode encode(input)
PunyEncode(input) ==
  LET basic == SelectSeq(input, LAMBDA c : c < 128)
      b == Len(basic)
      out0 == IF b > 0 THEN Append(basic, 45) ELSE basic
  IN EncodeMain(input, 128, [delta |-> 0, bias |-> 72, h |-> b, b |-> b, out |-> out0])

\* toASCII(label): a label with a non-ASCII code point becomes "xn--" plus
\* its Punycode, any other label is returned as it is.  It is the value
\* where the call returns; EncodeThrows tells where it throws instead.
toASCII(tld) == IF HasNonAscii(tld) THEN AcePrefix \o PunyEncode(tld) ELSE tld

\* The largest integer of the codec: a delta beyond it is an overflow.
MaxInt == 2147483647

\* toASCII(label) throws: the label has a non-ASCII code point and encode
\* overflows on it, in the test before the delta of a pass is added or in
\* the "++delta > maxInt" test inside a pass.
EncodeThrows(tld) ==
  LET RECURSIVE PassOverflows(_, _, _)
      PassOverflows(i, n, delta) ==
        IF i > Len(tld) THEN FALSE
        ELSE IF tld[i] < n
        THEN delta + 1 > MaxInt \/ PassOverflows(i + 1, n, delta + 1)
        ELSE IF tld[i] = n THEN PassOverflows(i + 1, n, 0)
        ELSE PassOverflows(i + 1, n, delta)
      RECURSIVE MainOverflows(_, _)
      MainOverflows(n, st) ==
        IF st.h >= Len(tld) THEN FALSE
        ELSE LET m == CHOOSE x \in Range(tld) :
                        x >= n /\ \A i \in 1..Len(tld) : tld[i] >= n => x =< tld[i]
             IN IF m - n > (MaxInt - st.delta) \div (st.h + 1) THEN TRUE
                ELSE LET st1 == [st EXCEPT !.delta = st.delta + (m - n) * (st.h + 1)]
                         st2 == EncodePass(tld, 1, m, st1)
                     IN \/ PassOverflows(1, m, st1.delta)
                        \/ MainOverflows(m + 1, [st2 EXCEPT !.delta = st2.delta + 1])
      b == Len(SelectSeq(tld, LAMBDA c : c < 128))
  IN /\ HasNonAscii(tld)
     /\ MainOverflows(128, [delta |-> 0, bias |-> 72, h |-> b, b |-> b, out |-> <<>>])

\* Index of the last delimiter "-" of the input, 0 when there is none.
LastDelimiter(input) ==
  LET I == {i \in 1..Len(input) : input[i] = 45}
  IN IF I = {} THEN 0 ELSE CHOOSE i \in I : \A j \in I : j =< i

\* Decodes one variable-length integer starting at input[idx].
RECURSIVE DecodeVarInt(_, _, _, _, _, _)
DecodeVarInt(input, idx, i, w, k, bias) ==
  IF idx > Len(input) THEN [ok |-> FALSE, i |-> 0, idx |-> idx]
  ELSE LET digit == BasicToDigit(input[idx])
           t == Threshold(k, bias)
       IN IF digit >= 36 THEN [ok |-> FALSE, i |-> 0, idx |-> idx]
          ELSE IF digit < t THEN [ok |-> TRUE, i |-> i + digit * w, idx |-> idx + 1]
          ELSE DecodeVarInt(input, idx + 1, i + digit * w, w * (36 - t), k + 36, bias)

InsertAt(s, pos, x) == SubSeq(s, 1, pos) \o <<x>> \o SubSeq(s, pos + 1, Len(s))

RECURSIVE DecodeMain(_, _, _, _, _, _)
DecodeMain(input, idx, n, i, bias, out) ==
  IF idx > Len(input) THEN [ok |-> TRUE, val |-> out]
  ELSE LET r == DecodeVarInt(input, idx, i, 1, 36, bias)
           len == Len(out) + 1
       IN IF ~r.ok THEN [ok |-> FALSE, val |-> <<>>]
          ELSE LET n1 == n + (r.i \div len)
                   i1 == r.i % len
               IN IF n1 > 1114111 THEN [ok |-> FALSE, val |-> <<>>]
                  ELSE DecodeMain(input, r.idx, n1, i1 + 1,
                                  Adapt(r.i - i, len, i = 0), InsertAt(out, i1, n1))

\* punycode decode(input): ok is FALSE where the library throws.
PunyDecode(input) ==
  LET d == LastDelimiter(input)
      basic == SubSeq(input, 1, IF d > 1 THEN d - 1 ELSE 0)
  IN IF \E j \in 1..Len(basic) : basic[j] >= 128 THEN [ok |-> FALSE, val |-> <<>>]
     ELSE DecodeMain(input, IF d > 1 THEN d + 1 ELSE 1, 128, 0, 72, basic)

\* toUnicode(label): a label with the "xn--" prefix is decoded (after
\* lowercasing the rest), any other label is returned as it is.
toUnicode(tld) ==
  IF StartsWithXn(tld) THEN PunyDecode(toLowerCase(SubSeq(tld, 5, Len(tld))))
  ELSE [ok |-> TRUE, val |-> tld]

(***************************************************************************)
(* JavaScript Map and Set, which iterate in insertion order: a Map is a    *)
(* sequence of [k, v] entries with distinct keys, a Set a sequence of      *)
(* distinct elements.                                                      *)
(***************************************************************************)
MapHas(m, k) == \E i \in 1..Len(m) : m[i].k = k

MapGet(m, k) == m[CHOOSE i \in 1..Len(m) : m[i].k = k].v

\* Map.prototype.set: an existing key keeps its position.
MapSet(m, k, v) ==
  IF MapHas(m, k)
  THEN [i \in 1..Len(m) |-> IF m[i].k = k THEN [k |-> k, v |-> v] ELSE m[i]]
  ELSE Append(m, [k |-> k, v |-> v])

MapKeys(m) == [i \in 1..Len(m) |-> m[i].k]

\* Set.prototype.add
SetAdd(s, x) == IF x \in Range(s) THEN s ELSE Append(s, x)

(***************************************************************************)
(* build_tlds_json, step 1: the lookup maps of the delegated entries.      *)
(***************************************************************************)
\* The filter left out: every entry is kept.
DelegatedEntriesUnfiltered(entries) == entries

\* entries.filter((entry) => entry.delegated)
DelegatedEntries(entries) == SelectSeq(entries, LAMBDA e : e.delegated)

\* The type taken from the length of the label, as is_cctld does.
TypeOfByLength(entry) == IF Len(entry.tld) = 2 THEN "cctld" ELSE "gtld"

\* entry.type === "country-code" ? "cctld" : "gtld"
TypeOf(entry) == IF entry.type = "country-code" THEN "cctld" ELSE "gtld"

\* One iteration of the loop over delegatedEntries: the entry is indexed
\* under its label and, unless the label has the xn-- prefix, under the
\* ASCII form of the label too; where toASCII throws the catch block skips
\* the second form.
IndexEntry(maps, entry) ==
  LET t1 == MapSet(maps.type, entry.tld, TypeOf(entry))
      c1 == MapSet(maps.cat, entry.tld, entry.type)
  IN IF ~StartsWithXn(entry.tld) /\ ~EncodeThrows(entry.tld)
     THEN [type |-> MapSet(t1, toASCII(entry.tld), TypeOf(entry)),
           cat |-> MapSet(c1, toASCII(entry.tld), entry.type)]
     ELSE [type |-> t1, cat |-> c1]

RECURSIVE BuildLookupMaps(_)
BuildLookupMaps(entries) ==
  IF entries = <<>> THEN [type |-> <<>>, cat |-> <<>>]
  ELSE IndexEntry(BuildLookupMaps(SubSeq(entries, 1, Len(entries) - 1)),
                  entries[Len(entries)])

(***************************************************************************)
(* Step 2: the bootstrap records.  A JSON value of the services array is   *)
(* [isArray, length, tlds, servers]: tlds and servers stand for service[0] *)
(* and service[1], each [isArray, elems], an element being [isString, val].*)
(***************************************************************************)
\* tld.replace(/^\./, "").toLowerCase()
CleanTld(tld) == toLowerCase(StripLeadingDot(tld))

\* Array.isArray(service) && service.length >= 2 &&
\* Array.isArray(tlds) && Array.isArray(servers)
WellFormedService(service) ==
  /\ service.isArray
  /\ service.length >= 2
  /\ service.tlds.isArray
  /\ service.servers.isArray

\* servers.filter((s) => typeof s === "string")
StringServers(servers) ==
  LET strs == SelectSeq(servers.elems, LAMBDA s : s.isString)
  IN [i \in 1..Len(strs) |-> strs[i].val]

\* The loop over the labels of one record.
RECURSIVE RecordLabels(_, _, _, _)
RecordLabels(tts, typeMap, elems, servers) ==
  IF elems = <<>> THEN tts
  ELSE LET tld == Head(elems)
           next == IF tld.isString /\ MapHas(typeMap, CleanTld(tld.val))
                   THEN MapSet(tts, CleanTld(tld.val), servers)
                   ELSE tts
       IN RecordLabels(next, typeMap, Tail(elems), servers)

\* One iteration of the loop over rdapServices.
WalkService(tts, typeMap, service) ==
  IF WellFormedService(service)
  THEN RecordLabels(tts, typeMap, service.tlds.elems, StringServers(service.servers))
  ELSE tts

(***************************************************************************)
(* Step 3: the manual overrides.                                           *)
(***************************************************************************)
\* The override merged into the list the label has, not replacing it.
ApplyManualEntryMerging(tts, typeMap, entry) ==
  LET cleanTld == toLowerCase(entry.tld)
  IN IF MapHas(typeMap, cleanTld) /\ MapGet(typeMap, cleanTld) = "cctld"
     THEN MapSet(tts, cleanTld,
                 IF MapHas(tts, cleanTld)
                 THEN Append(MapGet(tts, cleanTld), entry.rdapServer)
                 ELSE <<entry.rdapServer>>)
     ELSE tts

\* The override applied to any delegated label, whatever its type.
ApplyManualEntryAnyType(tts, typeMap, entry) ==
  LET cleanTld == toLowerCase(entry.tld)
  IN IF MapHas(typeMap, cleanTld)
     THEN MapSet(tts, cleanTld, <<entry.rdapServer>>)
     ELSE tts

\* One iteration of the loop over manualCcTldData.
ApplyManualEntry(tts, typeMap, entry) ==
  LET cleanTld == toLowerCase(entry.tld)
  IN IF MapHas(typeMap, cleanTld) /\ MapGet(typeMap, cleanTld) = "cctld"
     THEN MapSet(tts, cleanTld, <<entry.rdapServer>>)
     ELSE tts

(***************************************************************************)
(* Step 4: grouping by server signature.  A server URL is a number, the    *)
(* numbers ordered as the URL strings are; the grouping key                *)
(* JSON.stringify(sortedServers) is the sorted list itself.                *)
(***************************************************************************)
RECURSIVE InsertServer(_, _)
InsertServer(s, x) ==
  IF s = <<>> THEN <<x>>
  ELSE IF x < Head(s) THEN <<x>> \o s
  ELSE <<Head(s)>> \o InsertServer(Tail(s), x)

\* [...servers].sort()
RECURSIVE SortServers(_)
SortServers(s) ==
  IF s = <<>> THEN <<>>
  ELSE InsertServer(SortServers(SubSeq(s, 1, Len(s) - 1)), s[Len(s)])

\* The key taken from the list as the source orders it.
GroupKeyUnsorted(servers) == servers

\* JSON.stringify(sortedServers)
GroupKey(servers) == SortServers(servers)

\* One iteration of the loop over tldToServers.entries().
AddToGroup(groups, e) ==
  LET key == GroupKey(e.v)
      g0 == IF MapHas(groups, key) THEN groups
            ELSE MapSet(groups, key, [tlds |-> <<>>, servers |-> SortServers(e.v)])
      old == MapGet(g0, key)
  IN MapSet(g0, key, [old EXCEPT !.tlds = SetAdd(old.tlds, e.k)])

RECURSIVE GroupByServers(_)
GroupByServers(tts) ==
  IF tts = <<>> THEN <<>>
  ELSE AddToGroup(GroupByServers(SubSeq(tts, 1, Len(tts) - 1)), tts[Len(tts)])

\* The labels of tldTypeMap that have no entry in tldToServers, the Unicode
\* forms left out.
TldsWithoutRdap(typeMap, tts) ==
  SelectSeq(MapKeys(typeMap),
            LAMBDA tld : /\ ~MapHas(tts, tld)
                         /\ (StartsWithXn(tld) \/ ~HasNonAscii(tld)))

\* The group without servers never set.
SetEmptyGroupSkipped(groups, without) == groups

\* serverGroups.set("[]", { tlds: tldsWithoutRdap, servers: [] })
SetEmptyGroup(groups, without) ==
  IF Len(without) > 0
  THEN MapSet(groups, <<>>, [tlds |-> without, servers |-> <<>>])
  ELSE groups

ServerGroups(typeMap, tts) ==
  SetEmptyGroup(GroupByServers(tts), TldsWithoutRdap(typeMap, tts))

(***************************************************************************)
(* Steps 5 to 7: the entries, their IDN pair and tags, and the sorting.    *)
(***************************************************************************)
NoIdn == [isNull |-> TRUE, ascii |-> <<>>, unicode |-> <<>>]

\* The IDN pair left null where the codec throws.
IdnOfWithoutFallback(tld) ==
  IF StartsWithXn(tld)
  THEN LET u == toUnicode(tld)
       IN IF u.ok THEN [isNull |-> FALSE, ascii |-> tld, unicode |-> u.val] ELSE NoIdn
  ELSE IF HasNonAscii(tld)
  THEN IF EncodeThrows(tld) THEN NoIdn
       ELSE [isNull |-> FALSE, ascii |-> toASCII(tld), unicode |-> tld]
  ELSE NoIdn

\* The IDN pair of a label; a codec failure gives the identity pair.
IdnOf(tld) ==
  IF StartsWithXn(tld)
  THEN LET u == toUnicode(tld)
       IN [isNull |-> FALSE, ascii |-> tld,
           unicode |-> IF u.ok THEN u.val ELSE tld]
  ELSE IF HasNonAscii(tld)
  THEN [isNull |-> FALSE, ascii |-> IF EncodeThrows(tld) THEN tld ELSE toASCII(tld),
        unicode |-> tld]
  ELSE NoIdn

\* The category pushed whatever it is.
TagsOfUnfiltered(catMap, tld) ==
  IF MapHas(catMap, tld) THEN <<MapGet(catMap, tld)>> ELSE <<>>

\* category && category !== "country-code" ? [category] : []
TagsOf(catMap, tld) ==
  IF MapHas(catMap, tld) /\ MapGet(catMap, tld) /= "country-code"
  THEN <<MapGet(catMap, tld)>>
  ELSE <<>>

TldInfo(typeMap, catMap, tld) ==
  [tld |-> tld, type |-> MapGet(typeMap, tld), idn |-> IdnOf(tld),
   tags |-> TagsOf(catMap, tld)]

\* The entries of one group: its labels sorted, those without a type skipped.
TldInfos(typeMap, catMap, tlds) ==
  LET known == SelectSeq(SortLabels(tlds), LAMBDA tld : MapHas(typeMap, tld))
  IN [i \in 1..Len(known) |-> TldInfo(typeMap, catMap, known[i])]

\* The loop over serverGroups.values(): a group without entries is dropped.
RECURSIVE BuildServices(_, _, _)
BuildServices(typeMap, catMap, groups) ==
  IF groups = <<>> THEN <<>>
  ELSE LET infos == TldInfos(typeMap, catMap, Head(groups).v.tlds)
           rest == BuildServices(typeMap, catMap, Tail(groups))
       IN IF Len(infos) > 0
          THEN <<[tlds |-> infos, rdapServers |-> Head(groups).v.servers]>> \o rest
          ELSE rest

\* a.tlds[0]?.tld || ""
FirstTld(service) == IF Len(service.tlds) > 0 THEN service.tlds[1].tld ELSE <<>>

\* The comparator of services.sort: firstA.localeCompare(firstB) < 0.
ServiceBefore(a, b) == LocaleLess(FirstTld(a), FirstTld(b))

RECURSIVE InsertService(_, _)
InsertService(s, x) ==
  IF s = <<>> THEN <<x>>
  ELSE IF ServiceBefore(x, Head(s)) THEN <<x>> \o s
  ELSE <<Head(s)>> \o InsertService(Tail(s), x)

\* services.sort(...), a stable sort.
RECURSIVE SortServices(_)
SortServices(s) ==
  IF s = <<>> THEN <<>>
  ELSE InsertService(SortServices(SubSeq(s, 1, Len(s) - 1)), s[Len(s)])

\* build_tlds_json as a function of the bootstrap records, the parsed
\* registry entries and the manual overrides: the steps above in sequence.
build_tlds_json(svcs, entries, manual) ==
  LET maps == BuildLookupMaps(DelegatedEntries(entries))
      RECURSIVE Walk(_, _)
      Walk(tts, rest) ==
        IF rest = <<>> THEN tts
        ELSE Walk(WalkService(tts, maps.type, Head(rest)), Tail(rest))
      RECURSIVE Apply(_, _)
      Apply(tts, rest) ==
        IF rest = <<>> THEN tts
        ELSE Apply(ApplyManualEntry(tts, maps.type, Head(rest)), Tail(rest))
      tts == Apply(Walk(<<>>, svcs), manual)
  IN SortServices(BuildServices(maps.type, maps.cat, ServerGroups(maps.type, tts)))

(***************************************************************************)
(* parse.ts: the classification predicate and the three parsers.           *)
(***************************************************************************)
\* The white space String.prototype.trim removes, as far as the inputs of
\* the model have it: tab, line feed, carriage return, space.
IsSpace(c) == c \in {9, 10, 13, 32}

RECURSIVE TrimStart(_)
TrimStart(s) == IF s /= <<>> /\ IsSpace(Head(s)) THEN TrimStart(Tail(s)) ELSE s

RECURSIVE TrimEnd(_)
TrimEnd(s) ==
  IF s /= <<>> /\ IsSpace(s[Len(s)]) THEN TrimEnd(SubSeq(s, 1, Len(s) - 1)) ELSE s

\* String.prototype.trim
trim(s) == TrimEnd(TrimStart(s))

\* String.prototype.length: the number of UTF-16 code units, two for a code
\* point above U+FFFF.
Utf16Length(s) == Len(s) + Cardinality({i \in 1..Len(s) : s[i] > 65535})

\* Array.from(decoded).length: the number of code points.
ArrayFromLength(s) == Len(s)

\* is_cctld with the decoded label measured as String.prototype.length does.
is_cctld_ByCodeUnits(tld) ==
  IF StartsWithXn(tld)
  THEN LET decoded == toUnicode(tld)
       IN IF decoded.ok THEN Utf16Length(decoded.val) = 2 ELSE FALSE
  ELSE Utf16Length(tld) = 2

\* is_cctld(tld): the catch branch returns false where toUnicode throws.
is_cctld(tld) ==
  IF StartsWithXn(tld)
  THEN LET decoded == toUnicode(tld)
       IN IF decoded.ok THEN ArrayFromLength(decoded.val) = 2 ELSE FALSE
  ELSE Utf16Length(tld) = 2

\* parse_tlds_file(content), the content given as its lines.
parse_tlds_file(content) ==
  SelectSeq([i \in 1..Len(content) |-> toLowerCase(trim(content[i]))],
            LAMBDA line : Len(line) > 0 /\ Head(line) /= 35)

\* The labels one service of the bootstrap file contributes.
ServiceTlds(service) ==
  IF service.isArray /\ service.length >= 1 /\ service.tlds.isArray
  THEN LET strings == SelectSeq(service.tlds.elems, LAMBDA e : e.isString)
       IN [i \in 1..Len(strings) |-> CleanTld(strings[i].val)]
  ELSE <<>>

\* parse_bootstrap_tlds that gives up at the first service it cannot read.
RECURSIVE parse_bootstrap_tlds_Aborting(_)
parse_bootstrap_tlds_Aborting(svcs) ==
  IF svcs = <<>> THEN <<>>
  ELSE IF ~(Head(svcs).isArray /\ Head(svcs).length >= 1 /\ Head(svcs).tlds.isArray)
  THEN <<>>
  ELSE ServiceTlds(Head(svcs)) \o parse_bootstrap_tlds_Aborting(Tail(svcs))

\* parse_bootstrap_tlds(services)
RECURSIVE parse_bootstrap_tlds(_)
parse_bootstrap_tlds(svcs) ==
  IF svcs = <<>> THEN <<>>
  ELSE ServiceTlds(Head(svcs)) \o parse_bootstrap_tlds(Tail(svcs))

\* The texts of the classification cell.
CountryCodeText == <<99, 111, 117, 110, 116, 114, 121, 45, 99, 111, 100, 101>>
GenericText == <<103, 101, 110, 101, 114, 105, 99>>
SponsoredText == <<115, 112, 111, 110, 115, 111, 114, 101, 100>>
InfrastructureText == <<105, 110, 102, 114, 97, 115, 116, 114, 117, 99, 116, 117, 114, 101>>
TestText == <<116, 101, 115, 116>>
GenericRestrictedText ==
  <<103, 101, 110, 101, 114, 105, 99, 45, 114, 101, 115, 116, 114, 105, 99, 116, 101, 100>>

\* The mapping of the classification text that lets any text through.
TypeOfTextUnchecked(typeText) ==
  IF typeText = CountryCodeText THEN "country-code"
  ELSE IF typeText = GenericText THEN "generic"
  ELSE IF typeText = SponsoredText THEN "sponsored"
  ELSE IF typeText = InfrastructureText THEN "infrastructure"
  ELSE IF typeText = TestText THEN "test"
  ELSE IF typeText = GenericRestrictedText THEN "generic-restricted"
  ELSE "other"

\* The mapping of the classification text to the type; "unknown" stands for
\* the final else branch, which logs and skips the row.
TypeOfText(typeText) ==
  IF typeText = CountryCodeText THEN "country-code"
  ELSE IF typeText = GenericText THEN "generic"
  ELSE IF typeText = SponsoredText THEN "sponsored"
  ELSE IF typeText = InfrastructureText THEN "infrastructure"
  ELSE IF typeText = TestText THEN "test"
  ELSE IF typeText = GenericRestrictedText THEN "generic-restricted"
  ELSE "unknown"

\* The label of a row: the anchor text without its leading dot, lowercased.
LabelOfText(tldText) == toLowerCase(StripLeadingDot(tldText))

\* The delegation flag of a row, which the table exposes next to the type.
DelegatedOf(row) == row.delegated

\* One row of table#tld-table: the entries it yields, none or one.  A row
\* has the anchor of the label or not, a number of td cells, and the text of
\* the anchor and of the second cell.
ParseRow(row) ==
  IF row.hasLink /\ row.cells >= 2
  THEN LET tldText == trim(row.linkText)
           typeText == trim(row.typeText)
       IN IF tldText /= <<>> /\ typeText /= <<>> /\ TypeOfText(typeText) /= "unknown"
          THEN <<[tld |-> LabelOfText(tldText), type |-> TypeOfText(typeText),
                  delegated |-> DelegatedOf(row)]>>
          ELSE <<>>
  ELSE <<>>

\* parse_root_zone_db(content), the content given as the rows of the table.
RECURSIVE parse_root_zone_db(_)
parse_root_zone_db(content) ==
  IF content = <<>> THEN <<>>
  ELSE ParseRow(Head(content)) \o parse_root_zone_db(Tail(content))

(***************************************************************************)
(* analyze.ts: the country-code lookup and the per-source analyzers.       *)
(***************************************************************************)
get_idn_format(tld) ==
  IF StartsWithXn(tld) THEN "ascii"
  ELSE IF HasNonAscii(tld) THEN "unicode"
  ELSE "null"

\* is_idn comparing with undefined, which get_idn_format never returns.
is_idn_NotUndefined(tld) == get_idn_format(tld) /= "undefined"

is_idn(tld) == get_idn_format(tld) /= "null"

\* new Set(list)
RECURSIVE NewSet(_)
NewSet(list) ==
  IF list = <<>> THEN <<>>
  ELSE SetAdd(NewSet(SubSeq(list, 1, Len(list) - 1)), list[Len(list)])

SetHas(s, x) == x \in Range(s)

analyze_idn_breakdown(tlds, ccTldLookup) ==
  LET idns == SelectSeq(tlds, LAMBDA t : is_idn(t))
  IN [total |-> Len(idns),
      ccTlds |-> Len(SelectSeq(idns, LAMBDA t : SetHas(ccTldLookup, t))),
      gTlds |-> Len(SelectSeq(idns, LAMBDA t : ~SetHas(ccTldLookup, t))),
      ascii |-> Len(SelectSeq(idns, LAMBDA t : get_idn_format(t) = "ascii")),
      unicode |-> Len(SelectSeq(idns, LAMBDA t : get_idn_format(t) = "unicode"))]

\* The loop body of build_cctld_lookup; where toASCII throws the catch
\* block logs and the label alone is added.
AddCcTld(ccTlds, entry) ==
  IF entry.type = "country-code"
  THEN LET added == SetAdd(ccTlds, entry.tld)
       IN IF ~StartsWithXn(entry.tld) /\ ~EncodeThrows(entry.tld)
          THEN SetAdd(added, toASCII(entry.tld))
          ELSE added
  ELSE ccTlds

RECURSIVE CcTldsOf(_)
CcTldsOf(entries) ==
  IF entries = <<>> THEN <<>>
  ELSE AddCcTld(CcTldsOf(SubSeq(entries, 1, Len(entries) - 1)), entries[Len(entries)])

build_cctld_lookup(rootZoneDb) == CcTldsOf(parse_root_zone_db(rootZoneDb))

\* The summary analyze_tlds_file and analyze_rdap_bootstrap return.
CountTlds(tlds, ccTldLookup) ==
  [total |-> Len(tlds),
   ccTlds |-> Len(SelectSeq(tlds, LAMBDA t : SetHas(ccTldLookup, t))),
   gTlds |-> Len(SelectSeq(tlds, LAMBDA t : ~SetHas(ccTldLookup, t))),
   idns |-> Len(SelectSeq(tlds, LAMBDA t : is_idn(t))),
   idnBreakdown |-> analyze_idn_breakdown(tlds, ccTldLookup)]

analyze_tlds_file(content, rootZoneDb) ==
  CountTlds(parse_tlds_file(content), build_cctld_lookup(rootZoneDb))

analyze_rdap_bootstrap(svcs, rootZoneDb) ==
  CountTlds(parse_bootstrap_tlds(svcs), build_cctld_lookup(rootZoneDb))

\* The six categories, and the tally of the entries over them.
Categories ==
  {"country-code", "generic", "sponsored", "infrastructure", "test",
   "generic-restricted"}

ByCategory(entries) ==
  [c \in Categories |-> Len(SelectSeq(entries, LAMBDA e : e.type = c))]

Labels(entries) == [i \in 1..Len(entries) |-> entries[i].tld]

analyze_root_zone_db(content) ==
  LET entries == parse_root_zone_db(content)
      ccEntries == SelectSeq(entries, LAMBDA e : e.type = "country-code")
      ccTldLookup == NewSet(Labels(ccEntries))
      delegatedEntries == SelectSeq(entries, LAMBDA e : e.delegated)
      undelegatedEntries == SelectSeq(entries, LAMBDA e : ~e.delegated)
  IN [total |-> Len(entries),
      ccTlds |-> Len(ccEntries),
      gTlds |-> Len(SelectSeq(entries, LAMBDA e : e.type /= "country-code")),
      idns |-> Len(SelectSeq(entries, LAMBDA e : is_idn(e.tld))),
      idnBreakdown |-> analyze_idn_breakdown(Labels(entries), ccTldLookup),
      delegated |-> Len(delegatedEntries),
      undelegated |-> Len(undelegatedEntries),
      undelegatedCcTlds |->
        Len(SelectSeq(undelegatedEntries, LAMBDA e : e.type = "country-code")),
      undelegatedGTlds |->
        Len(SelectSeq(undelegatedEntries, LAMBDA e : e.type /= "country-code")),
      delegatedCounts |->
        [total |-> Len(delegatedEntries),
         ccTlds |-> Len(SelectSeq(delegatedEntries, LAMBDA e : e.type = "country-code")),
         gTlds |-> Len(SelectSeq(delegatedEntries, LAMBDA e : e.type /= "country-code")),
         idns |-> Len(SelectSeq(delegatedEntries, LAMBDA e : is_idn(e.tld))),
         idnBreakdown |-> analyze_idn_breakdown(Labels(delegatedEntries), ccTldLookup)],
      byCategory |-> ByCategory(entries),
      delegatedByCategory |-> ByCategory(delegatedEntries)]

\* The filter of analyze_rdap_coverage: the entry is missing from the
\* bootstrap under its label and under the ASCII form of its label; where
\* toASCII throws the entry counts as missing.
MissingFromRdap(rdapTlds, entry) ==
  IF SetHas(rdapTlds, entry.tld) THEN FALSE
  ELSE IF ~StartsWithXn(entry.tld) /\ ~EncodeThrows(entry.tld)
          /\ SetHas(rdapTlds, toASCII(entry.tld))
  THEN FALSE
  ELSE TRUE

\* The body of analyze_rdap_coverage on the parsed registry entries; the
\* missing entries are sorted by a.tld.localeCompare(b.tld), a stable sort.
RdapCoverage(svcs, entries) ==
  LET rdapTlds == NewSet(parse_bootstrap_tlds(svcs))
      delegatedGenericTlds ==
        SelectSeq(entries, LAMBDA e : e.delegated /\ e.type /= "country-code")
      missing == SelectSeq(delegatedGenericTlds, LAMBDA e : MissingFromRdap(rdapTlds, e))
      RECURSIVE Insert(_, _)
      Insert(s, x) ==
        IF s = <<>> THEN <<x>>
        ELSE IF LocaleLess(x.tld, Head(s).tld) THEN <<x>> \o s
        ELSE <<Head(s)>> \o Insert(Tail(s), x)
      RECURSIVE Sorted(_)
      Sorted(s) ==
        IF s = <<>> THEN <<>>
        ELSE Insert(Sorted(SubSeq(s, 1, Len(s) - 1)), s[Len(s)])
  IN [totalDelegatedGTlds |-> Len(delegatedGenericTlds),
      gTldsWithRdap |-> Len(delegatedGenericTlds) - Len(missing),
      gTldsWithoutRdap |-> Len(missing),
      missingGTlds |-> Sorted([i \in 1..Len(missing) |->
                                 [tld |-> missing[i].tld, type |-> missing[i].type]])]

analyze_rdap_coverage(svcs, rootZoneDb) ==
  RdapCoverage(svcs, parse_root_zone_db(rootZoneDb))

(***************************************************************************)
(* analyze.ts: the comparators.                                            *)
(***************************************************************************)
\* The set of the labels of a source that keeps repeated labels.
SourceSetWithRepeats(list) == list

\* new Set(parse_bootstrap_tlds(rdapServices)), new Set(tldsList)
SourceSet(list) == NewSet(list)

\* The labels of one set the other lacks, equal labels being those with the
\* same ASCII-compatible encoding.
OnlyInNormalised(these, others) ==
  SelectSeq(these, LAMBDA t : \A o \in Range(others) : toASCII(o) /= toASCII(t))

\* [...these].filter((tld) => !others.has(tld))
OnlyIn(these, others) == SelectSeq(these, LAMBDA t : ~SetHas(others, t))

\* The last entry of the label instead of the first.
FindLastEntry(entries, tld) ==
  entries[CHOOSE i \in 1..Len(entries) :
            entries[i].tld = tld /\ \A j \in (i + 1)..Len(entries) : entries[j].tld /= tld]

\* rootZoneEntries.find((e) => e.tld === tld): the first entry of the label.
FindEntry(entries, tld) ==
  entries[CHOOSE i \in 1..Len(entries) :
            entries[i].tld = tld /\ \A j \in 1..(i - 1) : entries[j].tld /= tld]

\* The loop that groups the labels only the registry has by their type: the
\* Map of type -> list, the labels in the order of onlyInRootZone before it
\* is sorted.
RECURSIVE GroupByType(_, _)
GroupByType(onlyInRootZone, entries) ==
  IF onlyInRootZone = <<>> THEN <<>>
  ELSE LET tld == onlyInRootZone[Len(onlyInRootZone)]
           sofar == GroupByType(SubSeq(onlyInRootZone, 1, Len(onlyInRootZone) - 1),
                                entries)
           type == FindEntry(entries, tld).type
           list == IF MapHas(sofar, type) THEN MapGet(sofar, type) ELSE <<>>
       IN MapSet(sofar, type, Append(list, tld))

\* What the two comparators compute from the labels of the other source.
Compare(sourceSet, rootZoneDb) ==
  LET rootZoneEntries_ == parse_root_zone_db(rootZoneDb)
      rootZoneTlds == NewSet(Labels(rootZoneEntries_))
      onlyInRootZone == OnlyIn(rootZoneTlds, sourceSet)
      onlyInSource == OnlyIn(sourceSet, rootZoneTlds)
  IN [count |-> Len(sourceSet),
      rootZoneCount |-> Len(rootZoneTlds),
      inBoth |-> Len(sourceSet) - Len(onlyInSource),
      onlyInRootZone |-> SortLabels(onlyInRootZone),
      onlyInSource |-> SortLabels(onlyInSource),
      onlyInRootZoneByType |-> GroupByType(onlyInRootZone, rootZoneEntries_)]

compare_bootstrap_vs_rootzone(svcs, rootZoneDb) ==
  LET c == Compare(SourceSet(parse_bootstrap_tlds(svcs)), rootZoneDb)
  IN [rdapCount |-> c.count, rootZoneCount |-> c.rootZoneCount, inBoth |-> c.inBoth,
      onlyInRootZone |-> c.onlyInRootZone, onlyInRdap |-> c.onlyInSource,
      onlyInRootZoneByType |-> c.onlyInRootZoneByType]

compare_tlds_vs_rootzone(tldsFile, rootZoneDb) ==
  LET c == Compare(SourceSet(parse_tlds_file(tldsFile)), rootZoneDb)
  IN [tldsCount |-> c.count, rootZoneCount |-> c.rootZoneCount, inBoth |-> c.inBoth,
      onlyInRootZone |-> c.onlyInRootZone, onlyInTlds |-> c.onlyInSource,
      onlyInRootZoneByType |-> c.onlyInRootZoneByType]

(***************************************************************************)
(* analyze.ts: the manager groups of analyze_tlds_json.  A manager is a    *)
(* string, "" standing for an entry without one; managerAliases is the      *)
(* list of its [name, entries] pairs in the order of Object.entries.        *)
(***************************************************************************)
NoTlds == [tlds |-> <<>>, ccTlds |-> <<>>, gTlds |-> <<>>]

\* The loops over services and their tlds: manager -> its labels.
RECURSIVE ManagerToTlds(_)
ManagerToTlds(entries) ==
  IF entries = <<>> THEN <<>>
  ELSE LET sofar == ManagerToTlds(SubSeq(entries, 1, Len(entries) - 1))
           tld == entries[Len(entries)]
           existing == IF MapHas(sofar, tld.manager) THEN MapGet(sofar, tld.manager)
                       ELSE NoTlds
       IN IF tld.manager /= ""
          THEN MapSet(sofar, tld.manager,
                 [tlds |-> Append(existing.tlds, tld.tld),
                  ccTlds |-> IF tld.type = "cctld" THEN Append(existing.ccTlds, tld.tld)
                             ELSE existing.ccTlds,
                  gTlds |-> IF tld.type = "cctld" THEN existing.gTlds
                            ELSE Append(existing.gTlds, tld.tld)])
          ELSE sofar

\* The reverse lookup manager name -> alias name; a later pair overwrites.
RECURSIVE ManagerToAlias(_)
ManagerToAlias(aliases) ==
  IF aliases = <<>> THEN <<>>
  ELSE LET sofar == ManagerToAlias(SubSeq(aliases, 1, Len(aliases) - 1))
           alias == aliases[Len(aliases)]
           RECURSIVE SetAll(_, _)
           SetAll(m, names) ==
             IF names = <<>> THEN m
             ELSE SetAll(MapSet(m, Head(names), alias.name), Tail(names))
       IN SetAll(sofar, alias.entries)

\* The alias group keeping the labels of its latest subsidiary only.
AddSubsidiaryReplacing(existing, manager, group) ==
  [tlds |-> group.tlds, ccTlds |-> group.ccTlds, gTlds |-> group.gTlds,
   subsidiaries |-> MapSet(existing.subsidiaries, manager, group)]

\* A manager added to its alias group: its labels are pushed to the totals
\* and the manager is tracked as a subsidiary.
AddSubsidiary(existing, manager, group) ==
  [tlds |-> existing.tlds \o group.tlds,
   ccTlds |-> existing.ccTlds \o group.ccTlds,
   gTlds |-> existing.gTlds \o group.gTlds,
   subsidiaries |-> MapSet(existing.subsidiaries, manager, group)]

\* analyzeManagerGrouping(services, supplementalData)
analyzeManagerGrouping(dataset, aliases) ==
  LET RECURSIVE Flatten(_)
      Flatten(svcs) == IF svcs = <<>> THEN <<>> ELSE Head(svcs).tlds \o Flatten(Tail(svcs))
      managerToTlds == ManagerToTlds(Flatten(dataset))
      managerToAlias == ManagerToAlias(aliases)
      \* managerToAlias.get(manager), "" where the if (aliasName) test fails
      AliasName(manager) ==
        IF MapHas(managerToAlias, manager) THEN MapGet(managerToAlias, manager) ELSE ""
      RECURSIVE AliasGroups(_)
      AliasGroups(ms) ==
        IF ms = <<>> THEN <<>>
        ELSE LET sofar == AliasGroups(SubSeq(ms, 1, Len(ms) - 1))
                 m == ms[Len(ms)]
                 existing == IF MapHas(sofar, AliasName(m.k)) THEN MapGet(sofar, AliasName(m.k))
                             ELSE [tlds |-> <<>>, ccTlds |-> <<>>, gTlds |-> <<>>,
                                   subsidiaries |-> <<>>]
             IN IF AliasName(m.k) /= ""
                THEN MapSet(sofar, AliasName(m.k), AddSubsidiary(existing, m.k, m.v))
                ELSE sofar
      standaloneManagers == SelectSeq(managerToTlds, LAMBDA m : AliasName(m.k) = "")
      Counted(group) ==
        [tldCount |-> Len(group.tlds), ccTldCount |-> Len(group.ccTlds),
         gTldCount |-> Len(group.gTlds), tlds |-> SortLabels(group.tlds),
         ccTlds |-> SortLabels(group.ccTlds), gTlds |-> SortLabels(group.gTlds)]
      \* .sort((a, b) => b.tldCount - a.tldCount), a stable sort
      RECURSIVE Insert(_, _)
      Insert(list, x) ==
        IF list = <<>> THEN <<x>>
        ELSE IF x.tldCount > Head(list).tldCount THEN <<x>> \o list
        ELSE <<Head(list)>> \o Insert(Tail(list), x)
      RECURSIVE Sorted(_)
      Sorted(list) ==
        IF list = <<>> THEN <<>>
        ELSE Insert(Sorted(SubSeq(list, 1, Len(list) - 1)), list[Len(list)])
      aliasGroups == AliasGroups(managerToTlds)
      managerGroups ==
        [i \in 1..Len(aliasGroups) |->
           [manager |-> aliasGroups[i].k, isAlias |-> TRUE,
            counts |-> Counted(aliasGroups[i].v),
            subsidiaries |->
              Sorted([j \in 1..Len(aliasGroups[i].v.subsidiaries) |->
                        LET sub == aliasGroups[i].v.subsidiaries[j]
                        IN Counted(sub.v) @@ [name |-> sub.k]])]]
        \o [i \in 1..Len(standaloneManagers) |->
              [manager |-> standaloneManagers[i].k, isAlias |-> FALSE,
               counts |-> Counted(standaloneManagers[i].v),
               subsidiaries |-> <<>>]]
  IN [totalUniqueManagers |-> Len(managerToTlds),
      managersWithMultipleTlds |->
        Len(SelectSeq(managerToTlds, LAMBDA m : Len(m.v.tlds) > 1)),
      managerGroups |->
        Sorted([i \in 1..Len(managerGroups) |->
                  managerGroups[i].counts
                  @@ [manager |-> managerGroups[i].manager,
                      isAlias |-> managerGroups[i].isAlias,
                      subsidiaries |-> managerGroups[i].subsidiaries]])]

(***************************************************************************)
(* The inputs of build_tlds_json.                                          *)
(***************************************************************************)
\* "ac", and ".AC" and "AC" as a source may spell it
ac == <<97, 99>>
dotUpperAc == <<46, 65, 67>>
upperAc == <<65, 67>>
\* U+0440 U+0444 and its ASCII form "xn--p1ai"
rf == <<1088, 1092>>
xnRf == <<120, 110, 45, 45, 112, 49, 97, 105>>
\* U+049B U+0430 U+0437, whose ASCII form is "xn--80ao21a"
kaz == <<1179, 1072, 1079>>

\* The rows of the registry table used in the model: the parser returns the
\* labels lowercased, without dot, in Unicode form where the table shows
\* Unicode; three of the six classifications occur.
RegistryRows ==
  {[tld |-> ac, type |-> "country-code", delegated |-> TRUE],
   [tld |-> ac, type |-> "generic", delegated |-> TRUE],
   [tld |-> ac, type |-> "country-code", delegated |-> FALSE],
   [tld |-> rf, type |-> "country-code", delegated |-> TRUE],
   [tld |-> rf, type |-> "sponsored", delegated |-> TRUE],
   [tld |-> kaz, type |-> "country-code", delegated |-> TRUE],
   [tld |-> kaz, type |-> "generic", delegated |-> TRUE]}

Str(v) == [isString |-> TRUE, val |-> v]
\* JSON values that are not strings (a number, null, an object).
NotStr == [isString |-> FALSE, val |-> <<>>]
NotStrServer == [isString |-> FALSE, val |-> 0]

Arr(elems) == [isArray |-> TRUE, elems |-> elems]
NotArr == [isArray |-> FALSE, elems |-> <<>>]

\* The label lists of bootstrap records.
TldLists ==
  {<<Str(dotUpperAc)>>, <<Str(rf)>>, <<Str(xnRf)>>, <<NotStr, Str(kaz)>>}

\* The server lists of bootstrap records, the server URLs being 1 < 2 < 3.
ServerLists ==
  {<<NotStrServer>>, <<Str(1), Str(2)>>, <<Str(2), Str(1)>>}

\* The elements of the services array: the [[tlds], [servers]] pairs and
\* two malformed ones (not an array; a pair whose server list is no array).
ServicePool ==
  {[isArray |-> TRUE, length |-> 2, tlds |-> Arr(t), servers |-> Arr(sv)] :
     t \in TldLists, sv \in ServerLists}
  \cup {[isArray |-> FALSE, length |-> 0, tlds |-> NotArr, servers |-> NotArr],
        [isArray |-> TRUE, length |-> 2, tlds |-> Arr(<<Str(rf)>>), servers |-> NotArr]}

\* The manual overrides: the label as spelt in the curated file, the server.
ManualPool == [tld : {upperAc}, rdapServer : {1, 3}]

(***************************************************************************)
(* build_tlds_json as a state machine.                                     *)
(***************************************************************************)
VARIABLES
  rootZoneEntries,  \* parse_root_zone_db(rootZoneContent)
  rdapServices,     \* the services array of the bootstrap file
  manualCcTldData,  \* the manual overrides
  tldTypeMap,       \* label -> "gtld" | "cctld"
  tldCategoryMap,   \* label -> classification
  tldToServers,     \* label -> server list
  serverGroups,     \* signature -> {tlds, servers}
  services,         \* the result
  svcIdx,           \* index of the next bootstrap record
  manIdx,           \* index of the next manual override
  pc,
  rootZoneContent,  \* the rows of the registry table, as downloaded
  tldsFileContent,  \* the lines of the TLD list file
  tldArg,           \* the argument of is_cctld
  result,           \* what the parser, analyzer or comparator returned
  managerAliases,   \* supplementalData.managerAliases
  dataFiles,        \* data/<filename>: the stored file, if any
  metadataFile,     \* data/metadata.json: filename -> download metadata
  clock             \* Date.now(), in seconds

vars == <<rootZoneEntries, rdapServices, manualCcTldData, tldTypeMap,
          tldCategoryMap, tldToServers, serverGroups, services, svcIdx,
          manIdx, pc, rootZoneContent, tldsFileContent, tldArg, result,
          managerAliases, dataFiles, metadataFile, clock>>

inputs == <<rootZoneEntries, rdapServices, manualCcTldData>>

\* The variables of the parsers, analyzers and comparators, and their value
\* while build_tlds_json runs.
sourceVars == <<rootZoneContent, tldsFileContent, tldArg, result, managerAliases,
               dataFiles, metadataFile, clock>>

\* The storage while no download runs.
NoStore ==
  /\ dataFiles = <<>>
  /\ metadataFile = <<>>
  /\ clock = 0

NoSourceCall ==
  /\ rootZoneContent = <<>>
  /\ tldsFileContent = <<>>
  /\ tldArg = <<>>
  /\ result = <<>>
  /\ managerAliases = <<>>
  /\ NoStore

Init ==
  /\ rootZoneEntries \in SeqsUpTo(RegistryRows, MaxRows)
  /\ rdapServices \in SeqsUpTo(ServicePool, MaxRecords)
  /\ manualCcTldData \in SeqsUpTo(ManualPool, MaxManual)
  /\ tldTypeMap = <<>>
  /\ tldCategoryMap = <<>>
  /\ tldToServers = <<>>
  /\ serverGroups = <<>>
  /\ services = <<>>
  /\ svcIdx = 1
  /\ manIdx = 1
  /\ pc = "index"
  /\ NoSourceCall

\* Lines 1478-1507: the delegated entries are indexed.
IndexDelegated ==
  /\ pc = "index"
  /\ LET maps == BuildLookupMaps(DelegatedEntries(rootZoneEntries))
     IN /\ tldTypeMap' = maps.type
        /\ tldCategoryMap' = maps.cat
  /\ pc' = "bootstrap"
  /\ UNCHANGED <<inputs, tldToServers, serverGroups, services, svcIdx, manIdx>>
  /\ UNCHANGED sourceVars

\* Lines 1512-1532: one record of the bootstrap file.
WalkBootstrap ==
  /\ pc = "bootstrap"
  /\ svcIdx =< Len(rdapServices)
  /\ tldToServers' = WalkService(tldToServers, tldTypeMap, rdapServices[svcIdx])
  /\ svcIdx' = svcIdx + 1
  /\ UNCHANGED <<inputs, tldTypeMap, tldCategoryMap, serverGroups, services,
                 manIdx, pc>>
  /\ UNCHANGED sourceVars

\* Lines 1535-1543: one manual override, once the bootstrap loop is over.
ApplyManual ==
  /\ pc = "bootstrap"
  /\ svcIdx > Len(rdapServices)
  /\ manIdx =< Len(manualCcTldData)
  /\ tldToServers' = ApplyManualEntry(tldToServers, tldTypeMap, manualCcTldData[manIdx])
  /\ manIdx' = manIdx + 1
  /\ UNCHANGED <<inputs, tldTypeMap, tldCategoryMap, serverGroups, services,
                 svcIdx, pc>>
  /\ UNCHANGED sourceVars

\* Lines 1545-1575: the groups, the group without servers included.
GroupTlds ==
  /\ pc = "bootstrap"
  /\ svcIdx > Len(rdapServices)
  /\ manIdx > Len(manualCcTldData)
  /\ serverGroups' = ServerGroups(tldTypeMap, tldToServers)
  /\ pc' = "emit"
  /\ UNCHANGED <<inputs, tldTypeMap, tldCategoryMap, tldToServers, services,
                 svcIdx, manIdx>>
  /\ UNCHANGED sourceVars

\* Lines 1577-1644: the entries of each group and the sorted result.
EmitServices ==
  /\ pc = "emit"
  /\ services' = SortServices(BuildServices(tldTypeMap, tldCategoryMap, serverGroups))
  /\ pc' = "done"
  /\ UNCHANGED <<inputs, tldTypeMap, tldCategoryMap, tldToServers, serverGroups,
                 svcIdx, manIdx>>
  /\ UNCHANGED sourceVars

Next ==
  \/ IndexDelegated
  \/ WalkBootstrap
  \/ ApplyManual
  \/ GroupTlds
  \/ EmitServices

Spec == Init /\ [][Next]_vars

(***************************************************************************)
(* build_tlds_json on a registry that shows a domain in one form or in     *)
(* both, with overrides for two country-code labels.                       *)
(***************************************************************************)
InitOrder ==
  LET Row(tld, type) == [tld |-> tld, type |-> type, delegated |-> TRUE]
      Record(tld, servers) ==
        [isArray |-> TRUE, length |-> 2, tlds |-> Arr(<<Str(tld)>>),
         servers |-> Arr(servers)]
  IN /\ rootZoneEntries \in
          SeqsUpTo({Row(ac, "country-code"), Row(rf, "generic"),
                    Row(xnRf, "country-code"), Row(kaz, "country-code")}, MaxRows)
     /\ rdapServices \in
          SeqsUpTo({Record(dotUpperAc, <<Str(1), Str(2)>>), Record(rf, <<Str(2), Str(1)>>),
                    Record(xnRf, <<Str(3)>>), Record(kaz, <<Str(1), Str(2)>>)}, MaxRecords)
     /\ manualCcTldData \in
          SeqsUpTo([tld : {upperAc, kaz}, rdapServer : {3}]
                     \cup [tld : {xnRf}, rdapServer : {1}], MaxManual)
     /\ tldTypeMap = <<>>
     /\ tldCategoryMap = <<>>
     /\ tldToServers = <<>>
     /\ serverGroups = <<>>
     /\ services = <<>>
     /\ svcIdx = 1
     /\ manIdx = 1
     /\ pc = "index"
     /\ NoSourceCall

SpecOrder == InitOrder /\ [][Next]_vars

(***************************************************************************)
(* validators.ts: the checks on a downloaded source.  A validator returns  *)
(* "ok" or the message of the error it throws.                             *)
(***************************************************************************)
\* validate_iana_bootstrap(data): the data is what JSON.parse makes of the
\* text ("invalid" when it throws, else the kind of the value) and the kind
\* of the member 'services'.
validate_iana_bootstrap(data) ==
  IF data.json = "invalid" THEN "Invalid JSON in RDAP bootstrap file"
  ELSE IF data.json /= "object" THEN "RDAP bootstrap file is not a valid JSON object"
  ELSE IF data.services /= "array" THEN "RDAP bootstrap file missing 'services' array"
  ELSE "ok"

\* validate_iana_tlds(data), the text given as its lines.  The lines kept
\* are the lines of the text as they are; only the test that keeps them
\* trims.
validate_iana_tlds(data) ==
  LET Ldh(c) == \/ c >= 97 /\ c =< 122
                \/ c >= 65 /\ c =< 90
                \/ c >= 48 /\ c =< 57
                \/ c = 45
      tlds == SelectSeq(data, LAMBDA line :
                Len(trim(line)) > 0 /\ Head(trim(line)) /= 35)
      invalidTlds == SelectSeq(tlds, LAMBDA line :
                       ~(Len(line) > 0 /\ \A i \in 1..Len(line) : Ldh(line[i])))
  IN IF \A i \in 1..Len(data) : trim(data[i]) = <<>>
     THEN "TLD list file is empty"
     ELSE IF Len(invalidTlds) > 0 THEN "Invalid TLD format found"
     ELSE "ok"

\* validate_iana_root_zone_db(data): the document is blank or not, has the
\* marker of an HTML text, the title, table#tld-table, and the rows.
validate_iana_root_zone_db(data) ==
  LET tldLinks == {i \in 1..Len(data.rows) : data.rows[i].hasLink}
      CellIs(text) == \E i \in 1..Len(data.rows) :
                        data.rows[i].cells >= 2 /\ trim(data.rows[i].typeText) = text
  IN IF data.blank THEN "Root Zone DB file is empty"
     ELSE IF ~data.marker THEN "Root Zone DB file is not valid HTML"
     ELSE IF ~data.title THEN "Root Zone DB file missing expected title"
     ELSE IF ~data.table THEN "Root Zone DB file missing TLD table"
     ELSE IF tldLinks = {} THEN "Root Zone DB file contains no TLD entries"
     ELSE IF ~CellIs(GenericText) THEN "Root Zone DB file missing generic TLD entries"
     ELSE IF ~CellIs(CountryCodeText)
          THEN "Root Zone DB file missing country-code TLD entries"
     ELSE "ok"

(***************************************************************************)
(* The inputs of the parsers, analyzers and comparators.                   *)
(***************************************************************************)
MaxLines == 2
MaxSlots == 2
MaxLabelLen == 3
MaxAceLen == 4

\* A row of the registry table.
HtmlRow(hasLink, linkText, cells, typeText, delegated) ==
  [hasLink |-> hasLink, linkText |-> linkText, cells |-> cells,
   typeText |-> typeText, delegated |-> delegated]

\* ".ac", " .AC " and ".<U+0440><U+0444>" as anchor texts, and the anchor
\* text of a right-to-left label: U+200F, the dot, the label, U+200E.
dotAc == <<46, 97, 99>>
paddedDotUpperAc == <<32, 46, 65, 67, 32>>
dotRf == <<46, 1088, 1092>>
bidiDotRf == <<8207, 46, 1088, 1092, 8206>>
UnknownTypeText == <<117, 110, 107, 110, 111, 119, 110, 45, 116, 121, 112, 101>>

UnknownTypeRow == HtmlRow(TRUE, dotAc, 3, UnknownTypeText, TRUE)

\* The rows of the tables: well-formed rows of both label forms, a row of a
\* right-to-left label, and the malformed rows (no anchor, a single cell,
\* texts of white space only, an unknown classification).
HtmlRows ==
  {HtmlRow(TRUE, dotAc, 3, CountryCodeText, TRUE),
   HtmlRow(TRUE, paddedDotUpperAc, 3, <<32>> \o GenericText, FALSE),
   HtmlRow(TRUE, dotRf, 3, CountryCodeText, TRUE),
   HtmlRow(TRUE, dotRf, 3, GenericText, FALSE),
   HtmlRow(TRUE, xnRf, 3, CountryCodeText, TRUE),
   HtmlRow(TRUE, bidiDotRf, 3, GenericText, TRUE),
   HtmlRow(FALSE, <<>>, 3, GenericText, TRUE),
   HtmlRow(TRUE, dotAc, 1, <<>>, TRUE),
   HtmlRow(TRUE, <<32>>, 3, <<32>>, FALSE),
   UnknownTypeRow}

\* One row of each of the six categories.
CategoryRows ==
  <<HtmlRow(TRUE, dotAc, 3, CountryCodeText, TRUE),
    HtmlRow(TRUE, dotAc, 3, GenericText, TRUE),
    HtmlRow(TRUE, dotAc, 3, SponsoredText, TRUE),
    HtmlRow(TRUE, dotAc, 3, InfrastructureText, TRUE),
    HtmlRow(TRUE, dotAc, 3, TestText, FALSE),
    HtmlRow(TRUE, dotAc, 3, GenericRestrictedText, TRUE)>>

\* The tables of six categories with one row of an unknown category put in
\* at any place.
CategoryTables == {InsertAt(CategoryRows, k, UnknownTypeRow) : k \in 0..6}

HtmlTables == SeqsUpTo(HtmlRows, MaxRows) \cup CategoryTables

\* The services of the bootstrap file, as parse_bootstrap_tlds sees them:
\* pairs, a one-element service, and the malformed ones (not an array, an
\* empty array, a first element that is no array).
SourceServices ==
  {[isArray |-> TRUE, length |-> 2, tlds |-> Arr(<<Str(dotUpperAc), Str(xnRf)>>),
    servers |-> Arr(<<Str(1)>>)],
   [isArray |-> TRUE, length |-> 1, tlds |-> Arr(<<Str(rf)>>), servers |-> NotArr],
   [isArray |-> TRUE, length |-> 2, tlds |-> Arr(<<NotStr, Str(xnRf)>>),
    servers |-> Arr(<<Str(1)>>)],
   [isArray |-> FALSE, length |-> 0, tlds |-> NotArr, servers |-> NotArr],
   [isArray |-> TRUE, length |-> 0, tlds |-> NotArr, servers |-> NotArr],
   [isArray |-> TRUE, length |-> 2, tlds |-> NotArr, servers |-> Arr(<<Str(1)>>)]}

\* The lines of the TLD list file: "AC", " <U+0440><U+0444>", "xn--p1ai",
\* a comment, an empty line, and "AC" before a carriage return.
FileLines == {upperAc, <<32>> \o rf, xnRf, <<35, 32, 97>>, <<>>, upperAc \o <<13>>}

\* The labels given to is_cctld: short labels of ASCII, Cyrillic and
\* supplementary-plane code points, every "xn--" label whose rest is a
\* short string over "p", "1", "a", "i", "!", and the labels of the tests.
xn2scrj9c == <<120, 110, 45, 45, 50, 115, 99, 114, 106, 57, 99>>
xnFlw351e == <<120, 110, 45, 45, 102, 108, 119, 51, 53, 49, 101>>
xnInvalid == <<120, 110, 45, 45, 105, 110, 118, 97, 108, 105, 100>>

CctldLabels ==
  SeqsUpTo({97, 1088, 128512}, MaxLabelLen)
  \cup {AcePrefix \o t : t \in SeqsUpTo({112, 49, 97, 105, 33}, MaxAceLen)}
  \cup {xn2scrj9c, xnFlw351e, xnInvalid}

(***************************************************************************)
(* The parsers, analyzers and comparators as calls on the downloaded       *)
(* sources: each action is one call, from its arguments to its result.     *)
(***************************************************************************)
NoBuild ==
  /\ rootZoneEntries = <<>>
  /\ manualCcTldData = <<>>
  /\ tldTypeMap = <<>>
  /\ tldCategoryMap = <<>>
  /\ tldToServers = <<>>
  /\ serverGroups = <<>>
  /\ services = <<>>
  /\ svcIdx = 1
  /\ manIdx = 1

buildVars == <<rootZoneEntries, manualCcTldData, tldTypeMap, tldCategoryMap,
               tldToServers, serverGroups, services, svcIdx, manIdx>>

InitSources ==
  /\ rootZoneContent \in HtmlTables
  /\ \/ /\ rdapServices \in SeqsUpTo(SourceServices, MaxRecords)
        /\ tldsFileContent = <<>>
     \/ /\ tldsFileContent \in SeqsUpTo(FileLines, MaxLines)
        /\ rdapServices = <<>>
  /\ tldArg = <<>>
  /\ result = <<>>
  /\ managerAliases = <<>>
  /\ NoStore
  /\ pc = "start"
  /\ NoBuild

\* The arguments of the calls, which no call changes.
sourceInputs == <<rdapServices, rootZoneContent, tldsFileContent, tldArg,
                  managerAliases, dataFiles, metadataFile, clock>>

ParseTldsFile ==
  /\ pc = "start"
  /\ result' = parse_tlds_file(tldsFileContent)
  /\ pc' = "parse_tlds_file"
  /\ UNCHANGED <<buildVars, sourceInputs>>

ValidateIanaTlds ==
  /\ pc = "start"
  /\ result' = validate_iana_tlds(tldsFileContent)
  /\ pc' = "validate_iana_tlds"
  /\ UNCHANGED <<buildVars, sourceInputs>>

ParseBootstrapTlds ==
  /\ pc = "start"
  /\ result' = parse_bootstrap_tlds(rdapServices)
  /\ pc' = "parse_bootstrap_tlds"
  /\ UNCHANGED <<buildVars, sourceInputs>>

ParseRootZoneDb ==
  /\ pc = "start"
  /\ result' = parse_root_zone_db(rootZoneContent)
  /\ pc' = "parse_root_zone_db"
  /\ UNCHANGED <<buildVars, sourceInputs>>

BuildCctldLookup ==
  /\ pc = "start"
  /\ result' = build_cctld_lookup(rootZoneContent)
  /\ pc' = "build_cctld_lookup"
  /\ UNCHANGED <<buildVars, sourceInputs>>

AnalyzeTldsFile ==
  /\ pc = "start"
  /\ result' = analyze_tlds_file(tldsFileContent, rootZoneContent)
  /\ pc' = "analyze_tlds_file"
  /\ UNCHANGED <<buildVars, sourceInputs>>

AnalyzeRdapBootstrap ==
  /\ pc = "start"
  /\ result' = analyze_rdap_bootstrap(rdapServices, rootZoneContent)
  /\ pc' = "analyze_rdap_bootstrap"
  /\ UNCHANGED <<buildVars, sourceInputs>>

AnalyzeRootZoneDb ==
  /\ pc = "start"
  /\ result' = analyze_root_zone_db(rootZoneContent)
  /\ pc' = "analyze_root_zone_db"
  /\ UNCHANGED <<buildVars, sourceInputs>>

CompareBootstrapVsRootzone ==
  /\ pc = "start"
  /\ result' = compare_bootstrap_vs_rootzone(rdapServices, rootZoneContent)
  /\ pc' = "compare_bootstrap_vs_rootzone"
  /\ UNCHANGED <<buildVars, sourceInputs>>

CompareTldsVsRootzone ==
  /\ pc = "start"
  /\ result' = compare_tlds_vs_rootzone(tldsFileContent, rootZoneContent)
  /\ pc' = "compare_tlds_vs_rootzone"
  /\ UNCHANGED <<buildVars, sourceInputs>>

NextSources ==
  \/ ParseTldsFile
  \/ ValidateIanaTlds
  \/ ParseBootstrapTlds
  \/ ParseRootZoneDb
  \/ BuildCctldLookup
  \/ AnalyzeTldsFile
  \/ AnalyzeRdapBootstrap
  \/ AnalyzeRootZoneDb
  \/ CompareBootstrapVsRootzone
  \/ CompareTldsVsRootzone

SpecSources == InitSources /\ [][NextSources]_vars

(***************************************************************************)
(* is_cctld as a call on a label.                                          *)
(***************************************************************************)
InitCctld ==
  /\ tldArg \in CctldLabels
  /\ rootZoneContent = <<>>
  /\ tldsFileContent = <<>>
  /\ rdapServices = <<>>
  /\ result = <<>>
  /\ managerAliases = <<>>
  /\ NoStore
  /\ pc = "start"
  /\ NoBuild

IsCctld ==
  /\ pc = "start"
  /\ result' = is_cctld(tldArg)
  /\ pc' = "is_cctld"
  /\ UNCHANGED <<buildVars, sourceInputs>>

NextCctld == IsCctld

SpecCctld == InitCctld /\ [][NextCctld]_vars

(***************************************************************************)
(* build_tlds_json, build_cctld_lookup and analyze_rdap_coverage on labels *)
(* the codec has trouble with.                                             *)
(***************************************************************************)
\* "xn--zz", which does not decode (the input ends inside a number);
\* "xn--a-", which decodes to the ASCII string "a"; and a label toASCII
\* throws on: 1927 times "a" and U+10FFFF, for which the first delta of
\* encode exceeds maxInt.
xnZz == <<120, 110, 45, 45, 122, 122>>
xnAHyphen == <<120, 110, 45, 45, 97, 45>>
overlong == [i \in 1..1928 |-> IF i < 1928 THEN 97 ELSE 1114111]
\* "XN--P1AI", as a curated file may spell the label

\* The rows of the registry table: the anchor text is the dot and the label.
CodecRows ==
  {HtmlRow(TRUE, dotAc, 3, CountryCodeText, TRUE),
   HtmlRow(TRUE, dotRf, 3, GenericText, TRUE),
   HtmlRow(TRUE, <<46>> \o xnRf, 3, CountryCodeText, TRUE),
   HtmlRow(TRUE, <<46>> \o xnZz, 3, GenericText, TRUE),
   HtmlRow(TRUE, <<46>> \o xnAHyphen, 3, GenericText, TRUE),
   HtmlRow(TRUE, <<46>> \o overlong, 3, CountryCodeText, TRUE),
   HtmlRow(TRUE, <<46>> \o overlong, 3, GenericText, TRUE)}

\* The records of the bootstrap file.
CodecServices ==
  {[isArray |-> TRUE, length |-> 2, tlds |-> Arr(<<Str(dotUpperAc)>>),
    servers |-> Arr(<<Str(1), Str(2)>>)],
   [isArray |-> TRUE, length |-> 2, tlds |-> Arr(<<Str(xnZz), Str(overlong)>>),
    servers |-> Arr(<<Str(2), Str(1)>>)],
   [isArray |-> TRUE, length |-> 2, tlds |-> Arr(<<Str(xnAHyphen), Str(rf)>>),
    servers |-> Arr(<<Str(3)>>)],
   [isArray |-> TRUE, length |-> 2, tlds |-> Arr(<<Str(xnRf)>>),
    servers |-> Arr(<<Str(1), Str(2)>>)]}

\* build_tlds_json, called without manual data, starts from the parsed table
\* (line 1478); the two other functions are calls on the same arguments.
InitCodec ==
  /\ rootZoneContent \in SeqsUpTo(CodecRows, MaxRows)
  /\ rootZoneEntries = parse_root_zone_db(rootZoneContent)
  /\ rdapServices \in SeqsUpTo(CodecServices, MaxRecords)
  /\ manualCcTldData = <<>>
  /\ tldTypeMap = <<>>
  /\ tldCategoryMap = <<>>
  /\ tldToServers = <<>>
  /\ serverGroups = <<>>
  /\ services = <<>>
  /\ svcIdx = 1
  /\ manIdx = 1
  /\ pc \in {"index", "start"}
  /\ tldsFileContent = <<>>
  /\ tldArg = <<>>
  /\ result = <<>>
  /\ managerAliases = <<>>
  /\ NoStore

AnalyzeRdapCoverage ==
  /\ pc = "start"
  /\ result' = analyze_rdap_coverage(rdapServices, rootZoneContent)
  /\ pc' = "analyze_rdap_coverage"
  /\ UNCHANGED <<buildVars, sourceInputs>>

NextCodec ==
  \/ IndexDelegated
  \/ WalkBootstrap
  \/ GroupTlds
  \/ EmitServices
  \/ BuildCctldLookup
  \/ AnalyzeRdapCoverage

SpecCodec == InitCodec /\ [][NextCodec]_vars

(***************************************************************************)
(* analyzeManagerGrouping as a call on a dataset and the manager aliases.  *)
(***************************************************************************)
MaxAliases == 2

\* The entries of the dataset: label, type and manager.
DatasetEntries ==
  {[tld |-> ac, type |-> "cctld", manager |-> "Registry A"],
   [tld |-> xnRf, type |-> "cctld", manager |-> "Registry B"],
   [tld |-> rf, type |-> "gtld", manager |-> "Registry C"],
   [tld |-> kaz, type |-> "gtld", manager |-> ""]}

\* The pairs of managerAliases: a friendly name and the manager names it
\* stands for; one friendly name is also the name of a manager.
AliasPairs ==
  [name : {"Group", "Registry C"},
   entries : SeqsUpTo({"Registry A", "Registry B", "Registry C"}, MaxSlots)]

\* The keys of an object are distinct.
DistinctNames(aliases) ==
  \A i, j \in 1..Len(aliases) : i /= j => aliases[i].name /= aliases[j].name

InitManagers ==
  /\ services \in SeqsUpTo([tlds : SeqsUpTo(DatasetEntries, MaxSlots), rdapServers : {<<1>>}],
                           MaxRecords)
  /\ managerAliases \in {a \in SeqsUpTo(AliasPairs, MaxAliases) : DistinctNames(a)}
  /\ NoStore
  /\ rootZoneEntries = <<>>
  /\ rdapServices = <<>>
  /\ manualCcTldData = <<>>
  /\ tldTypeMap = <<>>
  /\ tldCategoryMap = <<>>
  /\ tldToServers = <<>>
  /\ serverGroups = <<>>
  /\ svcIdx = 1
  /\ manIdx = 1
  /\ rootZoneContent = <<>>
  /\ tldsFileContent = <<>>
  /\ tldArg = <<>>
  /\ result = <<>>
  /\ pc = "start"

AnalyzeManagerGrouping ==
  /\ pc = "start"
  /\ result' = analyzeManagerGrouping(services, managerAliases)
  /\ pc' = "analyzeManagerGrouping"
  /\ UNCHANGED <<buildVars, sourceInputs>>

SpecManagers == InitManagers /\ [][AnalyzeManagerGrouping]_vars

(***************************************************************************)
(* utilities.ts and main.ts: the download of a source.  A header that is   *)
(* absent is "", an absent max-age is 0; times are in seconds.             *)
(***************************************************************************)
\* is_cache_fresh(metadata), with Date.now()
is_cache_fresh(fileMetadata, now) ==
  /\ fileMetadata.cacheMaxAge /= 0
  /\ now - fileMetadata.downloadedAt < fileMetadata.cacheMaxAge

\* The record of a file in the metadata: what update_download_metadata and
\* the end of download write.
update_download_metadata(allMetadata, filename, url, response, now) ==
  [allMetadata EXCEPT ![filename] =
     <<[url |-> url, etag |-> response.etag,
        lastModified |-> response.lastModified,
        cacheMaxAge |-> response.maxAge, downloadedAt |-> now]>>]

\* download(url, filename): null, the data, or the error thrown, and the
\* metadata file it leaves.  load_metadata gives {} when the file cannot be
\* read; save_metadata only logs when it cannot write.
download(allMetadata, filename, url, response, now, fault) ==
  LET loaded == IF fault = "metadata-unreadable"
                THEN [f \in DOMAIN allMetadata |-> <<>>] ELSE allMetadata
      fileMetadata == loaded[filename]
      Gives(kind, data, error, metadata) ==
        [kind |-> kind, data |-> data, error |-> error, metadata |-> metadata]
  IN IF /\ fileMetadata /= <<>>
        /\ fileMetadata[1].lastModified = ""
        /\ fileMetadata[1].etag = ""
        /\ is_cache_fresh(fileMetadata[1], now)
     THEN Gives("null", <<>>, "", allMetadata)
     ELSE IF response.status = 0
     THEN Gives("throw", <<>>, "Network error downloading", allMetadata)
     ELSE IF response.status = 304 THEN Gives("null", <<>>, "", allMetadata)
     ELSE IF response.status < 200 \/ response.status > 299
     THEN Gives("throw", <<>>, "Failed to download file", allMetadata)
     ELSE IF response.bodyFails
     THEN Gives("throw", <<>>, "Failed to read response data", allMetadata)
     ELSE Gives("data", <<response.body>>, "",
                IF fault = "metadata-unwritable" THEN allMetadata
                ELSE update_download_metadata(loaded, filename, url, response, now))

\* The body of the three downloads with the file saved before the validator
\* is asked.
DownloadAndSaveUnvalidated(verdict, files, allMetadata, filename, url, response, now, fault) ==
  LET got == download(allMetadata, filename, url, response, now, fault)
      Ends(returned, error, validated, saveCalled, newFiles) ==
        [files |-> newFiles, metadata |-> got.metadata,
         run |-> [returned |-> returned, error |-> error, data |-> got.data,
                  validated |-> validated, saveCalled |-> saveCalled]]
      saved == [files EXCEPT ![filename] = got.data]
  IN IF got.kind = "throw" THEN Ends("threw", got.error, FALSE, FALSE, files)
     ELSE IF got.kind = "null" THEN Ends("skipped", "", FALSE, FALSE, files)
     ELSE IF fault = "mkdir-fails"
     THEN Ends("threw", "Failed to create directory", FALSE, TRUE, files)
     ELSE IF fault = "write-fails"
     THEN Ends("threw", "Failed to write file", FALSE, TRUE, files)
     ELSE IF verdict /= "ok" THEN Ends("threw", verdict, TRUE, TRUE, saved)
     ELSE Ends("saved", "", TRUE, TRUE, saved)

\* The body of download_iana_rdap_bootstrap, download_iana_tlds and
\* download_iana_root_zone_db: download, return on null, validate, save.
\* The verdict is that of the validator of the source on the body of the
\* response; it is looked at only when the download gave data.  A failing
\* save_to_file leaves the file as it was.
DownloadAndSave(verdict, files, allMetadata, filename, url, response, now, fault) ==
  LET got == download(allMetadata, filename, url, response, now, fault)
      Ends(returned, error, validated, saveCalled, newFiles) ==
        [files |-> newFiles, metadata |-> got.metadata,
         run |-> [returned |-> returned, error |-> error, data |-> got.data,
                  validated |-> validated, saveCalled |-> saveCalled]]
  IN IF got.kind = "throw" THEN Ends("threw", got.error, FALSE, FALSE, files)
     ELSE IF got.kind = "null" THEN Ends("skipped", "", FALSE, FALSE, files)
     ELSE IF verdict /= "ok" THEN Ends("threw", verdict, TRUE, FALSE, files)
     ELSE IF fault = "mkdir-fails"
     THEN Ends("threw", "Failed to create directory", TRUE, TRUE, files)
     ELSE IF fault = "write-fails"
     THEN Ends("threw", "Failed to write file", TRUE, TRUE, files)
     ELSE Ends("saved", "", TRUE, TRUE, [files EXCEPT ![filename] = got.data])

(***************************************************************************)
(* The downloads as a state machine: each action is one call of one of the *)
(* three functions, the response of the server, the time of the call and   *)
(* the fault of the file system being its inputs.                          *)
(***************************************************************************)
\* The calls are made at the seconds 1..MaxClock, no two at the same second.
MaxClock == 2

Filenames == {"iana-rdap-bootstrap.json", "iana-tlds.txt", "iana-root-zone-db.html"}

\* The bootstrap texts: a JSON object with the services array, a text that
\* is no JSON, a JSON array, an object without the array.
BootstrapTexts ==
  {[json |-> "object", services |-> "array"], [json |-> "invalid", services |-> "none"],
   [json |-> "array", services |-> "none"], [json |-> "object", services |-> "none"]}

\* The TLD lists: "AC", "A C", and the empty text.
TldsTexts == {<<upperAc>>, <<<<65, 32, 67>>>>, <<>>}

\* The registry pages: a page with a country-code and a generic row, a
\* blank text, a page without the table, a page without a generic row.
RootZoneTexts ==
  LET Page(blank, table, rows) ==
        [blank |-> blank, marker |-> ~blank, title |-> ~blank, table |-> table,
         rows |-> rows]
      cc == HtmlRow(TRUE, dotAc, 3, CountryCodeText, TRUE)
      generic == HtmlRow(TRUE, dotRf, 3, GenericText, TRUE)
  IN {Page(FALSE, TRUE, <<cc, generic>>), Page(TRUE, FALSE, <<>>),
      Page(FALSE, FALSE, <<>>), Page(FALSE, TRUE, <<cc>>)}

\* The responses to the request for a source: fetch rejects (status 0), 304,
\* 500, a body that cannot be read, and 200 with a body and the validator
\* headers (Last-Modified, ETag, Cache-Control: max-age of 1 or 2 seconds,
\* or none of them).
Responses(texts) ==
  LET Response(status, bodyFails, etag, lastModified, maxAge, body) ==
        [status |-> status, bodyFails |-> bodyFails, etag |-> etag,
         lastModified |-> lastModified, maxAge |-> maxAge, body |-> body]
      any == CHOOSE t \in texts : TRUE
  IN {Response(status, FALSE, "", "", 0, any) : status \in {0, 304, 500}}
     \cup {Response(200, TRUE, "", "", 0, any)}
     \cup {Response(200, FALSE, h[1], h[2], h[3], body) :
             h \in {<<"", "lm", 0>>, <<"e", "", 0>>, <<"", "", 1>>, <<"", "", 2>>,
                    <<"", "", 0>>},
             body \in texts}

Faults ==
  {"none", "metadata-unreadable", "metadata-unwritable", "mkdir-fails", "write-fails"}

InitDownload ==
  /\ dataFiles = [f \in Filenames |-> <<>>]
  /\ metadataFile = [f \in Filenames |-> <<>>]
  /\ clock = 0
  /\ rdapServices = <<>>
  /\ rootZoneContent = <<>>
  /\ tldsFileContent = <<>>
  /\ tldArg = <<>>
  /\ managerAliases = <<>>
  /\ result = <<>>
  /\ pc = "start"
  /\ NoBuild

DownloadIanaRdapBootstrap ==
  \E response \in Responses(BootstrapTexts), now \in (clock + 1)..MaxClock, fault \in Faults :
    LET end == DownloadAndSave(validate_iana_bootstrap(response.body), dataFiles,
                               metadataFile, "iana-rdap-bootstrap.json",
                               "https://data.iana.org/rdap/dns.json",
                               response, now, fault)
    IN /\ dataFiles' = end.files
       /\ metadataFile' = end.metadata
       /\ result' = end.run
       /\ clock' = now
       /\ pc' = "download_iana_rdap_bootstrap"
       /\ UNCHANGED <<buildVars, rdapServices, rootZoneContent, tldsFileContent,
                      tldArg, managerAliases>>

DownloadIanaTlds ==
  \E response \in Responses(TldsTexts), now \in (clock + 1)..MaxClock, fault \in Faults :
    LET end == DownloadAndSave(validate_iana_tlds(response.body), dataFiles,
                               metadataFile, "iana-tlds.txt",
                               "https://data.iana.org/TLD/tlds-alpha-by-domain.txt",
                               response, now, fault)
    IN /\ dataFiles' = end.files
       /\ metadataFile' = end.metadata
       /\ result' = end.run
       /\ clock' = now
       /\ pc' = "download_iana_tlds"
       /\ UNCHANGED <<buildVars, rdapServices, rootZoneContent, tldsFileContent,
                      tldArg, managerAliases>>

DownloadIanaRootZoneDb ==
  \E response \in Responses(RootZoneTexts), now \in (clock + 1)..MaxClock, fault \in Faults :
    LET end == DownloadAndSave(validate_iana_root_zone_db(response.body), dataFiles,
                               metadataFile, "iana-root-zone-db.html",
                               "https://www.iana.org/domains/root/db",
                               response, now, fault)
    IN /\ dataFiles' = end.files
       /\ metadataFile' = end.metadata
       /\ result' = end.run
       /\ clock' = now
       /\ pc' = "download_iana_root_zone_db"
       /\ UNCHANGED <<buildVars, rdapServices, rootZoneContent, tldsFileContent,
                      tldArg, managerAliases>>

NextDownload ==
  \/ DownloadIanaRdapBootstrap
  \/ DownloadIanaTlds
  \/ DownloadIanaRootZoneDb

SpecDownload == InitDownload /\ [][NextDownload]_vars

(***************************************************************************)
(* What the inputs say, read off the inputs alone.                         *)
(***************************************************************************)
Done == pc = "done"

MaxOf(S) == CHOOSE x \in S : \A y \in S : y =< x

\* The positions (group, index) of the entries of the result.
OutPositions ==
  {p \in (1..Len(services)) \X (1..(MaxRows * 2)) : p[2] =< Len(services[p[1]].tlds)}

EntryAt(p) == services[p[1]].tlds[p[2]]

OutLabels == {EntryAt(p).tld : p \in OutPositions}

\* The groups of the result that hold an entry with label l.
GroupsOf(l) == {p[1] : p \in {q \in OutPositions : EntryAt(q).tld = l}}

\* Every label the inputs can mention, after cleaning.
InputLabels ==
  {r.tld : r \in RegistryRows}
  \cup {CleanTld(e.val) : e \in {x \in UNION {Range(t) : t \in TldLists} : x.isString}}
  \cup {toLowerCase(m.tld) : m \in ManualPool}

\* The ASCII-compatible encoding of each label the result can hold.
AceOf == [l \in InputLabels \cup {toASCII(x) : x \in InputLabels} |-> toASCII(l)]

\* l is the label of the row, or the ASCII-compatible encoding of it.
NamesDomain(row, l) == l = row.tld \/ l = AceOf[row.tld]

DelegatedRows == {i \in 1..Len(rootZoneEntries) : rootZoneEntries[i].delegated}

\* The delegated rows whose domain the label l names, and the last of them.
RowsNaming(l) == {i \in DelegatedRows : NamesDomain(rootZoneEntries[i], l)}

LastRow(l) == rootZoneEntries[MaxOf(RowsNaming(l))]

\* The well-formed bootstrap records that list l (after cleaning).
RecordsNaming(l) ==
  {j \in 1..Len(rdapServices) :
     /\ WellFormedService(rdapServices[j])
     /\ \E e \in Range(rdapServices[j].tlds.elems) : e.isString /\ CleanTld(e.val) = l}

\* The manual overrides for l that apply: l is a delegated country-code label.
OverridesFor(l) ==
  {k \in 1..Len(manualCcTldData) :
     /\ toLowerCase(manualCcTldData[k].tld) = l
     /\ RowsNaming(l) /= {}
     /\ LastRow(l).type = "country-code"}

\* Some source supplies a server list for the label l.
HasServerList(l) ==
  OverridesFor(l) /= {} \/ (RowsNaming(l) /= {} /\ RecordsNaming(l) /= {})

\* The server list in effect for the label l: the last applied override,
\* else the last well-formed bootstrap record, else none.
EffectiveServers(l) ==
  IF OverridesFor(l) /= {}
  THEN <<manualCcTldData[MaxOf(OverridesFor(l))].rdapServer>>
  ELSE IF RowsNaming(l) /= {} /\ RecordsNaming(l) /= {}
  THEN StringServers(rdapServices[MaxOf(RecordsNaming(l))].servers)
  ELSE <<>>

\* The labels the bootstrap records and the manual overrides mention.
SourceLabels ==
  {CleanTld(e.val) : e \in {x \in UNION {Range(rdapServices[j].tlds.elems) :
                                          j \in 1..Len(rdapServices)} : x.isString}}
  \cup {toLowerCase(manualCcTldData[k].tld) : k \in 1..Len(manualCcTldData)}

EmptyGroups == {g \in 1..Len(services) : services[g].rdapServers = <<>>}

(***************************************************************************)
(* The claims.                                                             *)
(***************************************************************************)
\* C1: every label of the result is the label, or the ASCII-compatible
\* encoding of the label, of some delegated registry entry; a label found
\* only in bootstrap or manual data, or only on an undelegated entry, is not
\* in the result.
C1_OnlyDelegatedLabels ==
  Done => \A l \in OutLabels : RowsNaming(l) /= {}

\* A source label carried by an undelegated row only, next to a non-empty
\* result.
C1_Witness ==
  /\ Done
  /\ services /= <<>>
  /\ \E l \in SourceLabels :
       /\ RowsNaming(l) = {}
       /\ \E i \in 1..Len(rootZoneEntries) : rootZoneEntries[i].tld = l

\* C2: every delegated registry domain is represented by an entry in some
\* group of the result, with or without servers.
C2_EveryDelegatedDomainCovered ==
  Done => \A i \in DelegatedRows :
            \E l \in OutLabels : NamesDomain(rootZoneEntries[i], l)

C4_Deduplicated ==
  Done => \A p, q \in OutPositions :
            p /= q => AceOf[EntryAt(p).tld] /= AceOf[EntryAt(q).tld]

\* C5: two labels are in the same group iff their effective server lists
\* are equal after sorting; no two groups have the same rdapServers; a
\* group's rdapServers is the sorted effective list of each member.
C5_GroupedBySortedServers ==
  Done =>
    LET sig == [l \in OutLabels |-> SortServers(EffectiveServers(l))]
        grp == [l \in OutLabels |-> GroupsOf(l)]
    IN /\ \A a, b \in OutLabels : (grp[a] \cap grp[b] /= {}) <=> (sig[a] = sig[b])
       /\ \A g, h \in 1..Len(services) :
            g /= h => services[g].rdapServers /= services[h].rdapServers
       /\ \A l \in OutLabels : \A g \in grp[l] : services[g].rdapServers = sig[l]

\* Two labels whose records list the same servers in different orders.
C5_Witness ==
  /\ Done
  /\ \E a, b \in OutLabels :
       /\ a /= b
       /\ GroupsOf(a) \cap GroupsOf(b) /= {}
       /\ EffectiveServers(a) /= EffectiveServers(b)

\* C6: the entries of each group are in ascending order of label and the
\* groups in ascending order of the label of their first entry, ascending
\* being what the test suite asserts: curr.localeCompare(prev) >= 0.
C6_SortedByLabel ==
  Done =>
    /\ \A p \in OutPositions :
         p[2] > 1 => ~LocaleLess(EntryAt(p).tld, EntryAt(<<p[1], p[2] - 1>>).tld)
    /\ \A g \in 2..Len(services) :
         ~LocaleLess(FirstTld(services[g]), FirstTld(services[g - 1]))

\* C7: a cctld entry has no tags, a gtld entry has the classification of its
\* domain as its one tag, and "country-code" is never a tag.
C7_Tags ==
  Done => \A p \in OutPositions :
            LET e == EntryAt(p)
            IN /\ RowsNaming(e.tld) /= {}
               /\ e.type = "cctld" => e.tags = <<>>
               /\ e.type = "gtld" => e.tags = <<LastRow(e.tld).type>>
               /\ "country-code" \notin Range(e.tags)

\* A result with a country-code entry and a sponsored entry.
C7_Witness ==
  /\ Done
  /\ \E p, q \in OutPositions :
       /\ EntryAt(p).type = "cctld"
       /\ EntryAt(q).type = "gtld" /\ LastRow(EntryAt(q).tld).type = "sponsored"

\* C8: an entry has type cctld iff the delegated registry entry of its
\* domain has classification country-code, and gtld otherwise, also when the
\* bootstrap names the domain by its Punycode label and the registry by its
\* Unicode label.
C8_TypeFromRegistry ==
  Done => \A p \in OutPositions :
            LET e == EntryAt(p)
            IN /\ RowsNaming(e.tld) /= {}
               /\ e.type \in {"cctld", "gtld"}
               /\ e.type = "cctld" <=> LastRow(e.tld).type = "country-code"

\* A country-code domain the registry names in Unicode and the bootstrap in
\* Punycode, in a group with servers; and a two-letter label that is generic.
C8_Witness ==
  /\ Done
  /\ \E p \in OutPositions :
       /\ StartsWithXn(EntryAt(p).tld)
       /\ RecordsNaming(EntryAt(p).tld) /= {}
       /\ \E i \in DelegatedRows : /\ HasNonAscii(rootZoneEntries[i].tld)
                                   /\ AceOf[rootZoneEntries[i].tld] = EntryAt(p).tld
       /\ EntryAt(p).type = "cctld"
       /\ services[p[1]].rdapServers /= <<>>
  /\ \E q \in OutPositions : EntryAt(q).tld = ac /\ EntryAt(q).type = "gtld"

\* C9: an applied manual override replaces what the bootstrap gave: the
\* label is in the group whose rdapServers is exactly the one-element list
\* of the server of the last override for the label.
C9_ManualReplaces ==
  Done => \A l \in InputLabels :
            OverridesFor(l) /= {}
            => /\ Cardinality(GroupsOf(l)) = 1
               /\ \A g \in GroupsOf(l) :
                    services[g].rdapServers
                      = <<manualCcTldData[MaxOf(OverridesFor(l))].rdapServer>>

\* Two overrides with different servers for a label that a bootstrap record
\* lists with servers of its own.
C9_Witness ==
  /\ Done
  /\ \E l \in InputLabels :
       /\ Cardinality(OverridesFor(l)) = 2
       /\ manualCcTldData[1].rdapServer /= manualCcTldData[2].rdapServer
       /\ RecordsNaming(l) /= {}
       /\ StringServers(rdapServices[MaxOf(RecordsNaming(l))].servers) /= <<>>

\* C10: a delegated label listed by several bootstrap records (and not
\* overridden) is in exactly one group, with the server list of the last
\* well-formed record that lists it.
C10_LastRecordWins ==
  Done => \A l \in InputLabels :
            (/\ Cardinality(RecordsNaming(l)) >= 2
             /\ RowsNaming(l) /= {}
             /\ OverridesFor(l) = {})
            => /\ Cardinality(GroupsOf(l)) = 1
               /\ \A g \in GroupsOf(l) :
                    services[g].rdapServers
                      = SortServers(StringServers(
                          rdapServices[MaxOf(RecordsNaming(l))].servers))

(***************************************************************************)
(* What the downloaded sources say, read off the arguments of the call.    *)
(***************************************************************************)
\* The rows of the table that have the anchor, the classification cell,
\* both texts and one of the six classifications.
SixTexts ==
  {CountryCodeText, GenericText, SponsoredText, InfrastructureText, TestText,
   GenericRestrictedText}

KeptRows ==
  {i \in 1..Len(rootZoneContent) :
     /\ rootZoneContent[i].hasLink
     /\ rootZoneContent[i].cells >= 2
     /\ trim(rootZoneContent[i].linkText) /= <<>>
     /\ trim(rootZoneContent[i].typeText) \in SixTexts}

\* The labels of the registry, as the parser returns them.
RegistryLabels == {e.tld : e \in Range(parse_root_zone_db(rootZoneContent))}

\* The labels of the source the comparator was called with, and the list of
\* the labels only that source has.
OtherLabels ==
  IF pc = "compare_bootstrap_vs_rootzone"
  THEN Range(parse_bootstrap_tlds(rdapServices))
  ELSE Range(parse_tlds_file(tldsFileContent))

OtherCount ==
  IF pc = "compare_bootstrap_vs_rootzone" THEN result.rdapCount ELSE result.tldsCount

OnlyInOther ==
  IF pc = "compare_bootstrap_vs_rootzone" THEN result.onlyInRdap ELSE result.onlyInTlds

Compared == pc \in {"compare_bootstrap_vs_rootzone", "compare_tlds_vs_rootzone"}

\* The list is in ascending order of label.
Ascending(list) ==
  \A i \in 1..Len(list) : \A j \in 1..Len(list) :
    i < j => ~CodeUnitLess(list[j], list[i])

\* The sub-counts of a summary partition its totals.
Partitioned(c) ==
  /\ c.total = c.ccTlds + c.gTlds
  /\ c.idnBreakdown.total = c.idnBreakdown.ascii + c.idnBreakdown.unicode
  /\ c.idnBreakdown.total = c.idnBreakdown.ccTlds + c.idnBreakdown.gTlds

\* C11: in every result of analyze_tlds_file, analyze_rdap_bootstrap and
\* analyze_root_zone_db the total is the country-code count plus the generic
\* count, the IDN total is the ASCII count plus the Unicode count and also
\* the country-code IDN count plus the generic IDN count; for
\* analyze_root_zone_db the total is also delegated plus undelegated.
C11_CountsPartition ==
  /\ pc \in {"analyze_tlds_file", "analyze_rdap_bootstrap", "analyze_root_zone_db"}
       => Partitioned(result)
  /\ pc = "analyze_root_zone_db"
       => result.total = result.delegated + result.undelegated

\* The registry analyzer on a table with a delegated and an undelegated
\* entry, a country-code and a generic one, a Punycode and a Unicode label.
C11_Witness ==
  /\ pc = "analyze_root_zone_db"
  /\ result.delegated >= 1 /\ result.undelegated >= 1
  /\ result.ccTlds >= 1 /\ result.gTlds >= 1
  /\ result.idnBreakdown.ascii >= 1 /\ result.idnBreakdown.unicode >= 1

\* C12: in the result of either comparator the count of the other source is
\* inBoth plus the length of its only-in list, and rootZoneCount is inBoth
\* plus the length of onlyInRootZone, inBoth being the number of distinct
\* labels both sources have; also when a source repeats a label.
C12_CountsConsistent ==
  Compared =>
    /\ result.inBoth = Cardinality(OtherLabels \cap RegistryLabels)
    /\ OtherCount = result.inBoth + Len(OnlyInOther)
    /\ result.rootZoneCount = result.inBoth + Len(result.onlyInRootZone)

\* A bootstrap file that repeats a label the registry has too.
C12_Witness ==
  /\ pc = "compare_bootstrap_vs_rootzone"
  /\ \E l \in RegistryLabels :
       Cardinality({k \in 1..Len(parse_bootstrap_tlds(rdapServices)) :
                      parse_bootstrap_tlds(rdapServices)[k] = l}) >= 2

C14_ListsSorted ==
  Compared =>
    /\ Ascending(OnlyInOther)
    /\ Ascending(result.onlyInRootZone)
    /\ \A k \in 1..Len(result.onlyInRootZoneByType) :
         Ascending(result.onlyInRootZoneByType[k].v)

C16_IndiaLabelIsCountryCode ==
  (pc = "is_cctld" /\ tldArg = xn2scrj9c) => result = TRUE

\* The places (service, element) of the bootstrap file that hold a label:
\* the service is an array whose first element is an array, the element is
\* a string.
LabelSlots ==
  {p \in (1..Len(rdapServices)) \X (1..MaxSlots) :
     /\ rdapServices[p[1]].isArray
     /\ rdapServices[p[1]].length >= 1
     /\ rdapServices[p[1]].tlds.isArray
     /\ p[2] =< Len(rdapServices[p[1]].tlds.elems)
     /\ rdapServices[p[1]].tlds.elems[p[2]].isString}

\* The number of places up to and including p, in input order.
SlotRank(p) ==
  Cardinality({q \in LabelSlots : q[1] < p[1] \/ (q[1] = p[1] /\ q[2] =< p[2])})

\* C17: parse_bootstrap_tlds returns, in input order, exactly the string
\* elements of the label list of every service that is an array whose first
\* element is an array, each without its leading dot and lowercased;
\* services that are no arrays, label lists that are no arrays and elements
\* that are no strings contribute nothing and stop nothing.
C17_BootstrapLabels ==
  pc = "parse_bootstrap_tlds" =>
    /\ Len(result) = Cardinality(LabelSlots)
    /\ \A p \in LabelSlots :
         result[SlotRank(p)]
           = toLowerCase(StripLeadingDot(rdapServices[p[1]].tlds.elems[p[2]].val))

\* A service that cannot be read, followed by one whose label list holds a
\* non-string before a label.
C17_Witness ==
  /\ pc = "parse_bootstrap_tlds"
  /\ Len(rdapServices) = 2
  /\ ~rdapServices[1].isArray
  /\ rdapServices[2].isArray /\ rdapServices[2].tlds.isArray
  /\ ~rdapServices[2].tlds.elems[1].isString
  /\ result = <<xnRf>>

\* The text the table shows for each category.
CategoryText ==
  [c \in Categories |->
     CASE c = "country-code" -> CountryCodeText
       [] c = "generic" -> GenericText
       [] c = "sponsored" -> SponsoredText
       [] c = "infrastructure" -> InfrastructureText
       [] c = "test" -> TestText
       [] c = "generic-restricted" -> GenericRestrictedText]

\* The number of kept rows up to and including row i.
RowRank(i) == Cardinality({j \in KeptRows : j =< i})

\* C18: parse_root_zone_db returns one entry for each row that has the
\* anchor, the classification cell, both texts and one of the six
\* classifications, in the order of the rows, and nothing for any other
\* row; every entry has one of the six classifications; a table of one row
\* per category and one row of an unknown category yields 6 entries, and
\* byCategory of analyze_root_zone_db is 1 for each category.
C18_MalformedRowsDropped ==
  /\ pc = "parse_root_zone_db" =>
       /\ Len(result) = Cardinality(KeptRows)
       /\ \A k \in 1..Len(result) : result[k].type \in Categories
       /\ \A i \in KeptRows :
            CategoryText[result[RowRank(i)].type] = trim(rootZoneContent[i].typeText)
       /\ rootZoneContent \in CategoryTables => Len(result) = 6
  /\ (pc = "analyze_root_zone_db" /\ rootZoneContent \in CategoryTables) =>
       \A c \in Categories : result.byCategory[c] = 1

\* The registry analyzer on a table of the six categories and an unknown one.
C18_Witness ==
  /\ pc = "analyze_root_zone_db"
  /\ rootZoneContent \in CategoryTables
  /\ result.total = 6

\* The bidirectional marks: U+200E, U+200F, U+202A..U+202E, U+2066..U+2069.
BidiMarks == {8206, 8207} \cup (8234..8238) \cup (8294..8297)

\* C19: every label parse_root_zone_db returns is lowercase and holds no
\* bidirectional mark and no dot, wherever the anchor text had them.
C19_LabelsClean ==
  pc = "parse_root_zone_db" =>
    \A k \in 1..Len(result) :
      /\ result[k].tld = toLowerCase(result[k].tld)
      /\ \A i \in 1..Len(result[k].tld) :
           result[k].tld[i] \notin BidiMarks /\ result[k].tld[i] /= 46

\* The Unicode form of a label: the decoded label for a Punycode label that
\* decodes, the label itself otherwise.
UnicodeOf(l) == IF StartsWithXn(l) /\ toUnicode(l).ok THEN toUnicode(l).val ELSE l

\* C20: the set build_cctld_lookup returns holds, for every country-code
\* entry of the registry, both the Unicode label and the Punycode label of
\* the domain, whichever of the two the row shows, and holds no label of a
\* domain that no country-code entry names.
C20_BothFormsIndexed ==
  pc = "build_cctld_lookup" =>
    LET cc == {e \in Range(parse_root_zone_db(rootZoneContent)) : e.type = "country-code"}
    IN /\ \A e \in cc :
            /\ UnicodeOf(e.tld) \in Range(result)
            /\ toASCII(UnicodeOf(e.tld)) \in Range(result)
       /\ \A l \in Range(result) :
            \E e \in cc : toASCII(UnicodeOf(e.tld)) = toASCII(UnicodeOf(l))

(***************************************************************************)
(* The codec, the overrides and the order of the inputs.                   *)
(***************************************************************************)
\* The codec throws on the label: decoding for a label with the "xn--"
\* prefix, encoding for any other label.
CodecFails(l) ==
  IF StartsWithXn(l) THEN ~PunyDecode(toLowerCase(SubSeq(l, 5, Len(l)))).ok
  ELSE EncodeThrows(l)

\* The entries of the parsed table that are delegated and not country-code.
DelegatedGenerics ==
  {e \in Range(parse_root_zone_db(rootZoneContent)) :
     e.delegated /\ e.type /= "country-code"}

\* C21: a failure of the codec is contained.  build_tlds_json returns, the
\* entry of a label the codec throws on has the identity IDN pair, and the
\* labels of the other delegated rows are indexed under both forms;
\* build_cctld_lookup returns a set with the label of every country-code
\* entry, and with the ASCII form of every one that encodes;
\* analyze_rdap_coverage returns, counts an entry whose label does not
\* encode as missing unless the bootstrap lists the label itself, and
\* decides every other entry by its two forms.
C21_CodecFailuresContained ==
  /\ Done =>
       /\ \A p \in OutPositions :
            CodecFails(EntryAt(p).tld)
            => EntryAt(p).idn = [isNull |-> FALSE, ascii |-> EntryAt(p).tld,
                                 unicode |-> EntryAt(p).tld]
       /\ \A i \in DelegatedRows :
            /\ MapHas(tldTypeMap, rootZoneEntries[i].tld)
            /\ ~CodecFails(rootZoneEntries[i].tld)
               => MapHas(tldTypeMap, toASCII(rootZoneEntries[i].tld))
  /\ pc = "build_cctld_lookup" =>
       \A e \in Range(parse_root_zone_db(rootZoneContent)) :
         e.type = "country-code"
         => /\ e.tld \in Range(result)
            /\ ~CodecFails(e.tld) => toASCII(e.tld) \in Range(result)
  /\ pc = "analyze_rdap_coverage" =>
       LET listed == Range(parse_bootstrap_tlds(rdapServices))
           missing == {m.tld : m \in Range(result.missingGTlds)}
       IN /\ result.gTldsWithRdap + result.gTldsWithoutRdap = result.totalDelegatedGTlds
          /\ missing \subseteq {e.tld : e \in DelegatedGenerics}
          /\ \A e \in DelegatedGenerics :
               e.tld \in missing
               <=> /\ e.tld \notin listed
                   /\ (StartsWithXn(e.tld) \/ CodecFails(e.tld)
                         \/ toASCII(e.tld) \notin listed)

\* A result of build_tlds_json with the entry of a label that does not
\* decode and the entry of a label that does not encode, both in a group
\* with servers, the table having a third label between the two.
C21_Witness ==
  /\ Done
  /\ \E p, q \in OutPositions :
       /\ EntryAt(p).tld = xnZz /\ EntryAt(p).idn.unicode = xnZz
       /\ EntryAt(q).tld = overlong /\ EntryAt(q).idn.ascii = overlong
       /\ services[p[1]].rdapServers /= <<>>
  /\ Len(rootZoneEntries) = 2

\* The pair derived again from its ASCII side, by decoding, and from its
\* Unicode side, by encoding; the side is kept where the codec throws.
PairFromAscii(a) ==
  [isNull |-> FALSE, ascii |-> a,
   unicode |-> IF toUnicode(a).ok THEN toUnicode(a).val ELSE a]

PairFromUnicode(u) ==
  [isNull |-> FALSE, ascii |-> IF EncodeThrows(u) THEN u ELSE toASCII(u),
   unicode |-> u]

\* C22: in the result of build_tlds_json idn is null iff the label is pure
\* ASCII without the "xn--" prefix; otherwise one side of the pair is the
\* label of the entry, and the pair derived again from idn.ascii or from
\* idn.unicode is the same pair.
C22_IdnPairsRoundTrip ==
  Done => \A p \in OutPositions :
            LET e == EntryAt(p)
            IN /\ e.idn.isNull <=> (~HasNonAscii(e.tld) /\ ~StartsWithXn(e.tld))
               /\ ~e.idn.isNull =>
                    /\ e.idn.ascii = e.tld \/ e.idn.unicode = e.tld
                    /\ PairFromAscii(e.idn.ascii) = e.idn
                    /\ PairFromUnicode(e.idn.unicode) = e.idn

\* The sum of a list of numbers.
RECURSIVE SumOf(_)
SumOf(list) == IF list = <<>> THEN 0 ELSE Head(list) + SumOf(Tail(list))

\* The entries of the dataset, as (service, index) places, that have a
\* manager, and the manager names they carry.
ManagedPlaces ==
  {p \in (1..Len(services)) \X (1..MaxSlots) :
     /\ p[2] =< Len(services[p[1]].tlds)
     /\ services[p[1]].tlds[p[2]].manager /= ""}

RawManagers == {services[p[1]].tlds[p[2]].manager : p \in ManagedPlaces}

\* C23: in the manager groups every manager name of the dataset is the
\* name of one standalone group or of one subsidiary of one alias group,
\* never both; the three counts of an alias group are the sums of the
\* counts of its subsidiaries; and the tldCount of all groups add up to the
\* number of entries of the dataset that have a manager.
C23_AliasGroupingConserves ==
  pc = "analyzeManagerGrouping" =>
    LET groups == result.managerGroups
        standalone(m) == {g \in 1..Len(groups) : ~groups[g].isAlias /\ groups[g].manager = m}
        subsidiary(m) ==
          {q \in (1..Len(groups)) \X (1..(MaxRecords * MaxSlots)) :
             /\ groups[q[1]].isAlias
             /\ q[2] =< Len(groups[q[1]].subsidiaries)
             /\ groups[q[1]].subsidiaries[q[2]].name = m}
    IN /\ \A m \in RawManagers :
            Cardinality(standalone(m)) + Cardinality(subsidiary(m)) = 1
       /\ \A g \in 1..Len(groups) :
            groups[g].isAlias =>
              LET subs == groups[g].subsidiaries
              IN /\ groups[g].tldCount = SumOf([j \in 1..Len(subs) |-> subs[j].tldCount])
                 /\ groups[g].ccTldCount = SumOf([j \in 1..Len(subs) |-> subs[j].ccTldCount])
                 /\ groups[g].gTldCount = SumOf([j \in 1..Len(subs) |-> subs[j].gTldCount])
       /\ SumOf([g \in 1..Len(groups) |-> groups[g].tldCount]) = Cardinality(ManagedPlaces)

\* An alias group of two subsidiaries next to a standalone manager, the
\* dataset having an entry without manager and a manager the aliases name
\* under both friendly names.
C23_Witness ==
  /\ pc = "analyzeManagerGrouping"
  /\ \E g, h \in 1..Len(result.managerGroups) :
       /\ result.managerGroups[g].isAlias
       /\ Len(result.managerGroups[g].subsidiaries) = 2
       /\ ~result.managerGroups[h].isAlias
  /\ Cardinality(ManagedPlaces) < SumOf([i \in 1..Len(services) |-> Len(services[i].tlds)])
  /\ Len(managerAliases) = 2
  /\ Range(managerAliases[1].entries) \cap Range(managerAliases[2].entries) /= {}

\* The list without its k-th element.
Without(list, k) == SubSeq(list, 1, k - 1) \o SubSeq(list, k + 1, Len(list))

\* C24: a manual override whose label no delegated country-code row of the
\* registry names (the label is undelegated, unknown, or that of a delegated
\* generic domain) has no effect: the services are those of the same call
\* without that override.
C24_IneffectiveOverride ==
  Done => \A k \in 1..Len(manualCcTldData) :
            (\A i \in RowsNaming(toLowerCase(manualCcTldData[k].tld)) :
               rootZoneEntries[i].type /= "country-code")
            => services = build_tlds_json(rdapServices, rootZoneEntries,
                                          Without(manualCcTldData, k))

\* An override for a label that a delegated generic row and an undelegated
\* country-code row carry and a bootstrap record lists with servers.
C24_Witness ==
  /\ Done
  /\ Len(manualCcTldData) >= 1
  /\ \E i, j \in 1..Len(rootZoneEntries) :
       /\ rootZoneEntries[i].tld = ac /\ rootZoneEntries[i].delegated
       /\ rootZoneEntries[i].type = "generic"
       /\ rootZoneEntries[j].tld = ac /\ ~rootZoneEntries[j].delegated
       /\ rootZoneEntries[j].type = "country-code"
  /\ \E g \in GroupsOf(ac) : Len(services[g].rdapServers) = 2

\* The services the steps leave are those of the function.
StepsAreTheFunction ==
  Done => services = build_tlds_json(rdapServices, rootZoneEntries, manualCcTldData)

(***************************************************************************)
(* The lists by category of the comparators.                               *)
(***************************************************************************)
\* The places of the category lists: the list and the place in it.
CategoryPlaces ==
  {p \in (1..Len(result.onlyInRootZoneByType)) \X (1..MaxRows + 7) :
     p[2] =< Len(result.onlyInRootZoneByType[p[1]].v)}

\* The classification of the first registry entry of the label.
FirstTypeOf(l) ==
  LET entries == parse_root_zone_db(rootZoneContent)
      first == MaxOf({i \in 1..Len(entries) :
                        entries[i].tld = l
                        /\ \A j \in 1..Len(entries) : entries[j].tld = l => i =< j})
  IN entries[first].type

\* C25: the lists of onlyInRootZoneByType partition onlyInRootZone: every
\* label of onlyInRootZone is at exactly one place of exactly one category
\* list, the list of the classification of its registry entry (the first
\* one of the label), and the lists hold no other label.
C25_ByTypePartitions ==
  Compared =>
    /\ \A l \in Range(result.onlyInRootZone) :
         \E p \in CategoryPlaces :
           /\ result.onlyInRootZoneByType[p[1]].v[p[2]] = l
           /\ result.onlyInRootZoneByType[p[1]].k = FirstTypeOf(l)
           /\ \A q \in CategoryPlaces :
                result.onlyInRootZoneByType[q[1]].v[q[2]] = l => q = p
    /\ \A p \in CategoryPlaces :
         result.onlyInRootZoneByType[p[1]].v[p[2]] \in Range(result.onlyInRootZone)
    /\ \A a, b \in 1..Len(result.onlyInRootZoneByType) :
         result.onlyInRootZoneByType[a].k = result.onlyInRootZoneByType[b].k => a = b

\* A comparison where the registry alone has a label that two rows of two
\* classifications carry.
C25_Witness ==
  /\ Compared
  /\ Len(result.onlyInRootZoneByType) >= 1
  /\ \E i, j \in KeptRows :
       /\ i < j
       /\ LabelOfText(trim(rootZoneContent[i].linkText))
            = LabelOfText(trim(rootZoneContent[j].linkText))
       /\ trim(rootZoneContent[i].typeText) /= trim(rootZoneContent[j].typeText)
       /\ LabelOfText(trim(rootZoneContent[i].linkText)) \in Range(result.onlyInRootZone)

(***************************************************************************)
(* The downloads: the metadata, the validators and the stored files.       *)
(***************************************************************************)
Downloaded ==
  pc \in {"download_iana_rdap_bootstrap", "download_iana_tlds",
          "download_iana_root_zone_db"}

\* The file the call is about.
FilenameOf(fn) ==
  IF fn = "download_iana_rdap_bootstrap" THEN "iana-rdap-bootstrap.json"
  ELSE IF fn = "download_iana_tlds" THEN "iana-tlds.txt"
  ELSE "iana-root-zone-db.html"

\* What the validator of the source says of the data.
VerdictOf(fn, data) ==
  IF fn = "download_iana_rdap_bootstrap" THEN validate_iana_bootstrap(data)
  ELSE IF fn = "download_iana_tlds" THEN validate_iana_tlds(data)
  ELSE validate_iana_root_zone_db(data)

\* C26: the stored download metadata of a file is updated only after the
\* new content of the file has been validated and saved: a call that ends
\* with an error (the download, the validation or the saving failed) or
\* that skips the file leaves the metadata of the file as it was.
C26_MetadataAfterSave ==
  [][Downloaded' =>
       (metadataFile'[FilenameOf(pc')] /= metadataFile[FilenameOf(pc')]
          => /\ result'.returned = "saved"
             /\ dataFiles'[FilenameOf(pc')] = result'.data)]_vars

\* C27: a downloaded file is written only after its validator accepted it.
\* When the validator throws, the call throws the validator's error,
\* save_to_file is not called and the stored file is as before; when the
\* download gives null nothing is validated or written; and a stored file
\* changes only to data its validator accepts.
C27_WrittenOnlyWhenValid ==
  [][Downloaded' =>
       /\ (result'.data /= <<>> /\ VerdictOf(pc', result'.data[1]) /= "ok")
            => /\ result'.returned = "threw"
               /\ result'.error = VerdictOf(pc', result'.data[1])
               /\ ~result'.saveCalled
               /\ dataFiles' = dataFiles
       /\ result'.returned = "skipped"
            => /\ ~result'.validated
               /\ ~result'.saveCalled
               /\ dataFiles' = dataFiles
       /\ dataFiles' /= dataFiles
            => /\ result'.validated
               /\ result'.saveCalled
               /\ VerdictOf(pc', result'.data[1]) = "ok"
               /\ dataFiles' = [dataFiles EXCEPT ![FilenameOf(pc')] = result'.data]]_vars

\* The validator of the TLD list threw on the data of a later download while
\* the list of an earlier download is stored, and is still stored.
C27_Witness ==
  /\ pc = "download_iana_tlds"
  /\ result.returned = "threw"
  /\ result.validated
  /\ result.data /= <<>>
  /\ validate_iana_tlds(result.data[1]) /= "ok"
  /\ dataFiles["iana-tlds.txt"] /= <<>>
  /\ dataFiles["iana-tlds.txt"] /= result.data

\* The label is made of letters, digits and hyphens.
OnlyLdh(label) ==
  \A i \in 1..Len(label) :
    \/ label[i] >= 97 /\ label[i] =< 122
    \/ label[i] >= 65 /\ label[i] =< 90
    \/ label[i] >= 48 /\ label[i] =< 57
    \/ label[i] = 45

\* C30: validate_iana_tlds and parse_tlds_file agree on what a label line
\* is: a text that is not blank and of which parse_tlds_file returns only
\* labels of letters, digits and hyphens is accepted, white space or a
\* carriage return around a label or not; a text of which it returns a
\* label with another character is rejected.
C30_ValidatorAgreesWithParser ==
  pc = "validate_iana_tlds" =>
    LET labels == parse_tlds_file(tldsFileContent)
    IN /\ ((\E i \in 1..Len(tldsFileContent) : trim(tldsFileContent[i]) /= <<>>)
           /\ \A k \in 1..Len(labels) : OnlyLdh(labels[k]))
            => result = "ok"
       /\ (\E k \in 1..Len(labels) : ~OnlyLdh(labels[k])) => result /= "ok"

(***************************************************************************)
(* The order of the inputs.                                                *)
(***************************************************************************)
\* The orders of the elements of a list.
Orders(list) ==
  {[i \in 1..Len(list) |-> list[p[i]]] :
     p \in {q \in [1..Len(list) -> 1..Len(list)] : Range(q) = 1..Len(list)}}

\* The labels a bootstrap record lists, cleaned; none for a malformed one.
LabelsOfRecord(record) ==
  IF WellFormedService(record)
  THEN {CleanTld(e.val) : e \in {x \in Range(record.tlds.elems) : x.isString}}
  ELSE {}

\* The record with its server URLs in the opposite order.
ServersReversed(record) ==
  IF record.servers.isArray
  THEN [record EXCEPT !.servers.elems =
          [i \in 1..Len(@) |-> @[Len(@) + 1 - i]]]
  ELSE record

\* No label is in two bootstrap records, in two registry rows or in two
\* manual overrides.
LabelsOccurOnce ==
  /\ \A i, j \in 1..Len(rdapServices) :
       i /= j => LabelsOfRecord(rdapServices[i]) \cap LabelsOfRecord(rdapServices[j]) = {}
  /\ \A i, j \in 1..Len(rootZoneEntries) :
       i /= j => rootZoneEntries[i].tld /= rootZoneEntries[j].tld
  /\ \A i, j \in 1..Len(manualCcTldData) :
       i /= j => toLowerCase(manualCcTldData[i].tld) /= toLowerCase(manualCcTldData[j].tld)

\* C28: the services do not depend on the order of the inputs: when no
\* label is in two bootstrap records or in two registry rows, the bootstrap
\* records in another order, the server URLs of the records in another
\* order, the registry rows in another order or the manual overrides of
\* distinct labels in another order give the same list of services.
C28_OrderIndependent ==
  (Done /\ LabelsOccurOnce) =>
    /\ \A records \in Orders(rdapServices) :
         services = build_tlds_json(records, rootZoneEntries, manualCcTldData)
    /\ services = build_tlds_json([i \in 1..Len(rdapServices) |->
                                     ServersReversed(rdapServices[i])],
                                  rootZoneEntries, manualCcTldData)
    /\ \A rows \in Orders(rootZoneEntries) :
         services = build_tlds_json(rdapServices, rows, manualCcTldData)
    /\ \A overrides \in Orders(manualCcTldData) :
         services = build_tlds_json(rdapServices, rootZoneEntries, overrides)

(***************************************************************************)
(* The coverage of the generic domains, counted and built.                 *)
(***************************************************************************)
\* C29: analyze_rdap_coverage and build_tlds_json agree on the coverage:
\* for the same bootstrap services and registry entries and no manual
\* overrides, a delegated registry entry that is not country-code is in
\* missingGTlds iff the group of the services with empty rdapServers holds
\* its domain (its label or the ASCII-compatible encoding of its label),
\* and gTldsWithRdap + gTldsWithoutRdap = totalDelegatedGTlds.
C29_CoverageAgrees ==
  (Done /\ manualCcTldData = <<>>) =>
    LET coverage == RdapCoverage(rdapServices, rootZoneEntries)
        missing == {e.tld : e \in Range(coverage.missingGTlds)}
        Forms(l) == IF EncodeThrows(l) THEN {l} ELSE {l, toASCII(l)}
    IN /\ \A i \in 1..Len(rootZoneEntries) :
            (rootZoneEntries[i].delegated /\ rootZoneEntries[i].type /= "country-code")
              => (rootZoneEntries[i].tld \in missing
                    <=> \E l \in Forms(rootZoneEntries[i].tld) :
                          GroupsOf(l) \cap EmptyGroups /= {})
       /\ coverage.gTldsWithRdap + coverage.gTldsWithoutRdap
            = coverage.totalDelegatedGTlds

====
